---- MODULE Spec2Model ----
(***************************************************************************)
(* Model of the content-search tool (GrepTool) of packages/core:           *)
(* parameter validation, scope resolution, the three-strategy selector     *)
(* (git grep, system grep, in-process fallback) and the result returned by *)
(* execute.                                                                *)
(*                                                                         *)
(* Text is modelled as a sequence of one-character strings.  The stderr of *)
(* system grep is modelled as a sequence of text fragments (see            *)
(* PermLine, DirLine, ErrLine) so that chunk boundaries can fall inside a  *)
(* diagnostic line.                                                        *)
(***************************************************************************)
EXTENDS Integers, Sequences, FiniteSets, TLC

\* ------------------------------------------------------------------------
\* Bounds
\* ------------------------------------------------------------------------

\* largest number of diagnostic lines system grep writes to stderr
MaxStderrLines == 2

\* largest number of stderr data events delivered for one grep child
MaxChunks == 2

\* ------------------------------------------------------------------------
\* Text helpers
\* ------------------------------------------------------------------------

NoValue == "undefined"

NaN == -1

EOL == "\n"

RECURSIVE IndexOfFrom(_, _, _)
\* String.prototype.indexOf(c, from) on a sequence of characters; 0-based
\* in the source, 1-based here; 0 stands for "not found" (-1 in the source).
IndexOfFrom(s, c, from) ==
  IF from > Len(s) THEN 0
  ELSE IF s[from] = c THEN from
  ELSE IndexOfFrom(s, c, from + 1)

RECURSIVE Concat(_)
\* Buffer.concat(chunks): the chunks joined in order
Concat(chunks) ==
  IF chunks = <<>> THEN <<>> ELSE Head(chunks) \o Concat(Tail(chunks))

IsSpace(c) == c \in {" ", EOL, "\t"}

RECURSIVE TrimStart(_)
TrimStart(s) ==
  IF s = <<>> THEN s
  ELSE IF IsSpace(Head(s)) THEN TrimStart(Tail(s))
  ELSE s

RECURSIVE TrimEnd(_)
TrimEnd(s) ==
  IF s = <<>> THEN s
  ELSE IF IsSpace(s[Len(s)]) THEN TrimEnd(SubSeq(s, 1, Len(s) - 1))
  ELSE s

\* String.prototype.trim
Trim(s) == TrimEnd(TrimStart(s))

RECURSIVE Split(_, _)
\* String.prototype.split(sep) for a one-character separator
Split(s, sep) ==
  LET i == IndexOfFrom(s, sep, 1)
  IN IF i = 0 THEN <<s>>
     ELSE <<SubSeq(s, 1, i - 1)>> \o Split(SubSeq(s, i + 1, Len(s)), sep)

Digits == {"0", "1", "2", "3", "4", "5", "6", "7", "8", "9"}

DigitVal(c) ==
  CASE c = "0" -> 0 [] c = "1" -> 1 [] c = "2" -> 2 [] c = "3" -> 3
    [] c = "4" -> 4 [] c = "5" -> 5 [] c = "6" -> 6 [] c = "7" -> 7
    [] c = "8" -> 8 [] c = "9" -> 9

RECURSIVE ParseDigits(_, _, _)
ParseDigits(s, acc, seen) ==
  IF s = <<>> \/ Head(s) \notin Digits
  THEN IF seen THEN acc ELSE NaN
  ELSE ParseDigits(Tail(s), acc * 10 + DigitVal(Head(s)), TRUE)

\* parseInt(str, 10) for unsigned input: leading white space is skipped, the
\* longest run of decimal digits is read, NaN when there is none.
ParseInt(s) == ParseDigits(TrimStart(s), 0, FALSE)

\* ------------------------------------------------------------------------
\* Environment: the workspace, the file tree and the regular-expression
\* engine, as far as the tool observes them
\* ------------------------------------------------------------------------

\* the workspace configurations: one root, two roots, or two roots whose
\* directories have the same name
WorkspaceConfigs ==
  { << <<"w1", "app">> >>,
    << <<"w1", "app">>, <<"w2", "lib">> >>,
    << <<"w1", "app">>, <<"w3", "app">> >> }

\* config.getTargetDir()
TargetDir == <<"w1", "app">>

\* path.basename(dir)
Basename(dir) == dir[Len(dir)]

\* values of params.pattern: missing, not a regular expression, two valid ones
Patterns == {NoValue, "(", "a", "q"}

\* values of params.path: omitted, a directory of the workspace, a path
\* outside it, a missing path, a regular file, an unreadable path
PathArgs == {NoValue, "docs", "../etc", "gone", "README.md", "locked"}

\* values of params.include
Includes == {NoValue, "*.md"}

\* SchemaValidator.validate(schema, params): pattern is required
SchemaErrors(params) ==
  IF params.pattern = NoValue THEN "params must have required property 'pattern'"
  ELSE NoValue

\* new RegExp(pattern) throws on a pattern that is not a regular expression
RegExpValid(pattern) == pattern # "("

\* path.resolve(config.getTargetDir(), relativePath)
ResolvePath(relativePath) == Append(TargetDir, relativePath)

\* workspaceContext.isPathWithinWorkspace(targetPath)
isPathWithinWorkspace(targetPath) == targetPath # ResolvePath("../etc")

\* fs.statSync(targetPath): a directory, a file, or the error code thrown
StatSync(targetPath) ==
  CASE targetPath = ResolvePath("docs") -> "dir"
    [] targetPath = ResolvePath("README.md") -> "file"
    [] targetPath = ResolvePath("locked") -> "EACCES"
    [] OTHER -> "ENOENT"

\* the files globStream can yield under a search directory
FileA == <<"a", ".", "t", "x", "t">>

FileB == <<"b", ".", "m", "d">>

TreeFiles == {FileA, FileB}

\* the glob filter of the in-process traversal ('**/*' when include is absent)
GlobMatches(globPattern, file) ==
  IF globPattern = "**/*" THEN TRUE ELSE file = FileB

\* the text of a file of the tree
FileContent(file) ==
  IF file = FileA THEN <<"x", EOL, "A", "b">>
  ELSE <<"a", "\r", EOL, "y">>

\* toLowerCase of one character
LowerChar(c) ==
  IF c = "A" THEN "a" ELSE IF c = "Q" THEN "q" ELSE IF c = "M" THEN "m"
  ELSE IF c = "D" THEN "d" ELSE c

\* new RegExp(pattern, 'i').test(line) for the one-letter patterns of Patterns
RegexTestIgnoreCase(pattern, line) ==
  \E i \in 1..Len(line) : LowerChar(line[i]) = LowerChar(pattern)

\* ------------------------------------------------------------------------
\* Validation (GrepTool.resolveAndValidatePath, GrepTool.validateToolParams)
\* ------------------------------------------------------------------------

\* The outcome of resolveAndValidatePath: the value returned (null is
\* NoValue) or the error thrown, and the number of statSync calls it made.
resolveAndValidatePath(relativePath) ==
  IF relativePath = NoValue
  THEN [threw |-> FALSE, value |-> NoValue, stats |-> 0]
  ELSE LET targetPath == ResolvePath(relativePath)
       IN IF ~isPathWithinWorkspace(targetPath)
          THEN [threw |-> TRUE, value |-> "Path validation failed", stats |-> 0]
          ELSE LET st == StatSync(targetPath)
               IN CASE st = "dir" ->
                         [threw |-> FALSE, value |-> targetPath, stats |-> 1]
                    [] st = "file" ->
                         \* the 'not a directory' Error carries no code
                         [threw |-> TRUE, value |-> "Failed to access path stats",
                          stats |-> 1]
                    [] st = "ENOENT" ->
                         [threw |-> TRUE, value |-> "Failed to access path stats",
                          stats |-> 1]
                    [] OTHER ->
                         [threw |-> TRUE, value |-> "Path does not exist",
                          stats |-> 1]

\* validateToolParams mutated: the path is not validated
validateToolParams_NoPathCheck(params) ==
  IF SchemaErrors(params) # NoValue
  THEN [error |-> SchemaErrors(params), stats |-> 0]
  ELSE IF ~RegExpValid(params.pattern)
  THEN [error |-> "Invalid regular expression pattern provided", stats |-> 0]
  ELSE [error |-> NoValue, stats |-> 0]

\* validateToolParams mutated: the path is validated before the pattern
validateToolParams_PathFirst(params) ==
  LET r == resolveAndValidatePath(params.path)
  IN IF SchemaErrors(params) # NoValue
     THEN [error |-> SchemaErrors(params), stats |-> 0]
     ELSE IF r.threw THEN [error |-> r.value, stats |-> r.stats]
     ELSE IF ~RegExpValid(params.pattern)
     THEN [error |-> "Invalid regular expression pattern provided", stats |-> r.stats]
     ELSE [error |-> NoValue, stats |-> r.stats]

\* validateToolParams: the error message returned (null is NoValue) and the
\* number of statSync calls made on the way
validateToolParams(params) ==
  IF SchemaErrors(params) # NoValue
  THEN [error |-> SchemaErrors(params), stats |-> 0]
  ELSE IF ~RegExpValid(params.pattern)
  THEN [error |-> "Invalid regular expression pattern provided", stats |-> 0]
  ELSE IF params.path # NoValue
  THEN LET r == resolveAndValidatePath(params.path)
       IN [error |-> IF r.threw THEN r.value ELSE NoValue, stats |-> r.stats]
  ELSE [error |-> NoValue, stats |-> 0]

\* ------------------------------------------------------------------------
\* Output normalizer (GrepTool.parseGrepOutput)
\* ------------------------------------------------------------------------

\* path.relative(basePath, path.resolve(basePath, filePathRaw)) for the raw
\* paths the tools print: a leading './' is dropped
RECURSIVE RelativeToBase(_)
RelativeToBase(filePathRaw) ==
  IF Len(filePathRaw) >= 2 /\ filePathRaw[1] = "." /\ filePathRaw[2] = "/"
  THEN RelativeToBase(SubSeq(filePathRaw, 3, Len(filePathRaw)))
  ELSE filePathRaw

\* the match parsed from one output line, as a sequence of zero or one match
ParseLine(line) ==
  IF Trim(line) = <<>> THEN <<>>
  ELSE LET firstColonIndex == IndexOfFrom(line, ":", 1)
       IN IF firstColonIndex = 0 THEN <<>>
          ELSE LET secondColonIndex == IndexOfFrom(line, ":", firstColonIndex + 1)
               IN IF secondColonIndex = 0 THEN <<>>
                  ELSE LET filePathRaw == SubSeq(line, 1, firstColonIndex - 1)
                           lineNumberStr == SubSeq(line, firstColonIndex + 1,
                                                   secondColonIndex - 1)
                           lineContent == SubSeq(line, secondColonIndex + 1, Len(line))
                           lineNumber == ParseInt(lineNumberStr)
                       IN IF lineNumber = NaN THEN <<>>
                          ELSE << [filePath |-> RelativeToBase(filePathRaw),
                                   lineNumber |-> lineNumber,
                                   line |-> lineContent] >>

\* parseGrepOutput mutated: a parsed match is put in front of the results
RECURSIVE ParseLines_Unshift(_)
ParseLines_Unshift(lines) ==
  IF lines = <<>> THEN <<>>
  ELSE ParseLines_Unshift(Tail(lines)) \o ParseLine(Head(lines))

RECURSIVE ParseLines(_)
ParseLines(lines) ==
  IF lines = <<>> THEN <<>>
  ELSE ParseLine(Head(lines)) \o ParseLines(Tail(lines))

\* parseGrepOutput(output, basePath)
parseGrepOutput(output) ==
  IF output = <<>> THEN <<>> ELSE ParseLines(Split(output, EOL))

\* ------------------------------------------------------------------------
\* Child processes: what git grep and system grep can write and exit with
\* ------------------------------------------------------------------------

\* exit codes of a child: matches, no matches, error
ExitCodes == {0, 1, 2}

\* stdout texts of a child: nothing, one match, a match and a malformed line,
\* two matches of one file with the later line first
StdoutTexts ==
  { <<>>,
    <<"a", ".", "t", "x", "t", ":", "2", ":", "A", "b", "\n">>,
    <<".", "/", "b", ".", "m", "d", ":", "1", ":", "a", "\n", "z", "z", "\n">>,
    <<"a", ".", "t", "x", "t", ":", "2", ":", "A", "b", "\n", "a", ".", "t", "x", "t", ":", "1", ":", "x", "\n">> }

\* fragments of stderr text: "g" is 'grep:', "P" 'Permission ', "D" 'denied',
\* "I" ': Is a directory', "x" any other text
PermLine == <<"g", "P", "D", EOL>>

DirLine == <<"g", "I", EOL>>

ErrLine == <<"g", "x", EOL>>

StderrLines == {PermLine, DirLine, ErrLine}

\* the stderr texts of system grep: up to MaxStderrLines diagnostic lines
RECURSIVE StderrTexts(_)
StderrTexts(n) ==
  IF n = 0 THEN { <<>> }
  ELSE { <<>> } \cup { l \o t : l \in StderrLines, t \in StderrTexts(n - 1) }

\* stderrStr.includes('Permission denied')
IncludesPermissionDenied(str) ==
  \E i \in 1..(Len(str) - 1) : str[i] = "P" /\ str[i + 1] = "D"

\* /grep:.*: Is a directory/i.test(stderrStr); '.' does not match a newline
MatchesIsADirectory(str) ==
  \E i \in 1..Len(str) : \E j \in (i + 1)..Len(str) :
     /\ str[i] = "g"
     /\ str[j] = "I"
     /\ \A k \in (i + 1)..(j - 1) : str[k] # EOL

\* a whole diagnostic line is benign when it is one of the suppressed kinds
BenignLine(line) == IncludesPermissionDenied(line) \/ MatchesIsADirectory(line)

\* the diagnostic lines of a stderr text (without the empty tail of split)
LinesOf(text) == SelectSeq(Split(text, EOL), LAMBDA l : l # <<>>)

HasNonBenignLine(text) ==
  \E i \in 1..Len(LinesOf(text)) : ~BenignLine(LinesOf(text)[i])

OnlyBenignLines(text) ==
  /\ LinesOf(text) # <<>>
  /\ \A i \in 1..Len(LinesOf(text)) : BenignLine(LinesOf(text)[i])

\* ------------------------------------------------------------------------
\* Decisions of the strategy selector (GrepTool.performGrepSearch)
\* ------------------------------------------------------------------------

Strategies == <<"git grep", "system grep", "javascript fallback">>

StrategyRank(name) ==
  CASE name = "git grep" -> 1 [] name = "system grep" -> 2 [] OTHER -> 3

\* isGit && (await isCommandAvailable('git')) mutated: git is probed whether
\* or not the directory is a repository
ProbesGit_Always(repo) == TRUE

\* isGit && (await isCommandAvailable('git')): the probe runs only in a
\* repository
ProbesGit(repo) == repo

\* the close handler of git grep mutated: exit code 1 is a failure
GitOnClose_OneFails(code, stdoutData) ==
  IF code = 0 THEN [resolved |-> TRUE, output |-> stdoutData]
  ELSE [resolved |-> FALSE, output |-> <<>>]

\* the close handler of the git grep child: the promise resolves with the
\* output or rejects
GitOnClose(code, stdoutData) ==
  IF code = 0 THEN [resolved |-> TRUE, output |-> stdoutData]
  ELSE IF code = 1 THEN [resolved |-> TRUE, output |-> <<>>]
  ELSE [resolved |-> FALSE, output |-> <<>>]

\* onStderr of system grep: is the chunk pushed to stderrChunks
onStderrRetains(stderrStr) ==
  ~IncludesPermissionDenied(stderrStr) /\ ~MatchesIsADirectory(stderrStr)

\* onClose mutated: an exit code other than 0 and 1 always rejects
GrepOnClose_ErrorCodeRejects(code, stdoutData, chunks) ==
  IF code = 0 THEN [resolved |-> TRUE, output |-> stdoutData]
  ELSE IF code = 1 THEN [resolved |-> TRUE, output |-> <<>>]
  ELSE [resolved |-> FALSE, output |-> <<>>]

\* onClose of the system grep child
GrepOnClose(code, stdoutData, chunks) ==
  LET stderrData == Trim(Concat(chunks))
  IN IF code = 0 THEN [resolved |-> TRUE, output |-> stdoutData]
     ELSE IF code = 1 THEN [resolved |-> TRUE, output |-> <<>>]
     ELSE IF stderrData # <<>> THEN [resolved |-> FALSE, output |-> <<>>]
     ELSE [resolved |-> TRUE, output |-> <<>>]

\* after git grep mutated: the selector goes on to system grep even when
\* git grep returned a result
AfterGit_NoReturn(resolved) == "grepProbe"

\* where performGrepSearch continues once the git grep promise settled:
\* return on success, the catch falls through to strategy 2
AfterGit(resolved) == IF resolved THEN "pgsReturn" ELSE "grepProbe"

\* after system grep mutated: a failure of system grep is rethrown
AfterGrep_Rethrow(resolved) == IF resolved THEN "pgsReturn" ELSE "pgsThrow"

\* where performGrepSearch continues once the system grep promise settled
AfterGrep(resolved) == IF resolved THEN "pgsReturn" ELSE "js"

\* ------------------------------------------------------------------------
\* In-process fallback
\* ------------------------------------------------------------------------

RECURSIVE LineMatches(_, _, _, _)
\* lines.forEach((line, index) => regex.test(line) && push) from index i on
LineMatches(file, lines, i, pattern) ==
  IF i > Len(lines) THEN <<>>
  ELSE (IF RegexTestIgnoreCase(pattern, lines[i])
        THEN << [filePath |-> file, lineNumber |-> i, line |-> lines[i]] >>
        ELSE <<>>) \o LineMatches(file, lines, i + 1, pattern)

\* content.split(/\r?\n/): split at newlines, a carriage return before the
\* newline belongs to the separator
SplitLines(content) ==
  LET parts == Split(content, EOL)
  IN [ i \in 1..Len(parts) |->
         IF i < Len(parts) /\ parts[i] # <<>> /\ parts[i][Len(parts[i])] = "\r"
         THEN SubSeq(parts[i], 1, Len(parts[i]) - 1)
         ELSE parts[i] ]

\* the matches the fallback finds in one file that was read
FileMatches(file, pattern) ==
  LineMatches(file, SplitLines(FileContent(file)), 1, pattern)

\* ------------------------------------------------------------------------
\* Results of execute
\* ------------------------------------------------------------------------

\* the catch of execute mutated: the exception leaves execute
ExecuteCatch_Propagate(errorMessage) ==
  [kind |-> "exception", llmContent |-> errorMessage, count |-> 0, blocks |-> <<>>]

\* the catch of execute: an error ToolResult
ExecuteCatch(errorMessage) ==
  [kind |-> "error",
   llmContent |-> "Error during grep search operation: " \o errorMessage,
   count |-> 0, blocks |-> <<>>]

\* the result for a validation error
ValidationErrorResult(validationError) ==
  [kind |-> "validation_error",
   llmContent |-> "Error: Invalid parameters provided. Reason: " \o validationError,
   count |-> 0, blocks |-> <<>>]

RECURSIVE InsertByLineNumber(_, _)
\* where a stable sort by lineNumber puts a match pushed at the end of an
\* already sorted array: after the last element that is not greater
InsertByLineNumber(sorted, m) ==
  IF sorted = <<>> THEN << m >>
  ELSE IF sorted[Len(sorted)].lineNumber <= m.lineNumber THEN Append(sorted, m)
  ELSE Append(InsertByLineNumber(SubSeq(sorted, 1, Len(sorted) - 1), m),
              sorted[Len(sorted)])

\* acc[fileKey].push(match) mutated: the array is not sorted after the push
PushAndSort_NoSort(fileMatches, m) == Append(fileMatches, m)

\* the guard if (!acc[fileKey]) mutated away: the array is assigned anew for
\* every match
PushAndSort_StartsAnew(fileMatches, m) == << m >>

\* acc[fileKey].push(match); acc[fileKey].sort((a, b) => a.lineNumber - b.lineNumber)
PushAndSort(fileMatches, m) == InsertByLineNumber(fileMatches, m)

\* the index of the block of a file key, 0 when the key is new
BlockIndex(blocks, fileKey) ==
  IF \E i \in 1..Len(blocks) : blocks[i].file = fileKey
  THEN CHOOSE i \in 1..Len(blocks) : blocks[i].file = fileKey
  ELSE 0

RECURSIVE GroupByFile(_, _)
\* allMatches.reduce(...) from the accumulator acc on: the blocks are kept in
\* the order in which their keys were first seen (the iteration order of
\* for-in for keys that are not integers)
GroupByFile(acc, matches) ==
  IF matches = <<>> THEN acc
  ELSE LET m == Head(matches)
           k == BlockIndex(acc, m.filePath)
       IN GroupByFile(
            IF k = 0
            THEN Append(acc, [file |-> m.filePath, matches |-> PushAndSort(<<>>, m)])
            ELSE [acc EXCEPT ![k].matches = PushAndSort(@, m)],
            Tail(matches))

\* the 'File:' blocks of llmContent: per file the 'L<line>: <trimmed text>'
\* entries
RenderBlocks(matches) ==
  LET byFile == GroupByFile(<<>>, matches)
  IN [ b \in 1..Len(byFile) |->
         [file |-> byFile[b].file,
          lines |-> [ i \in 1..Len(byFile[b].matches) |->
                        [lineNumber |-> byFile[b].matches[i].lineNumber,
                         text |-> Trim(byFile[b].matches[i].line)] ]] ]

\* the end of execute mutated: an empty match list is reported as an error
RenderResult_EmptyIsError(matches) ==
  IF Len(matches) = 0
  THEN [kind |-> "error", llmContent |-> "Error during grep search operation: none",
        count |-> 0, blocks |-> <<>>]
  ELSE [kind |-> "found", llmContent |-> "Found", count |-> Len(matches),
        blocks |-> RenderBlocks(matches)]

\* the end of execute: the 'No matches found' summary or the match report
RenderResult(matches) ==
  IF Len(matches) = 0
  THEN [kind |-> "no_matches", llmContent |-> "No matches found", count |-> 0,
        blocks |-> <<>>]
  ELSE [kind |-> "found", llmContent |-> "Found", count |-> Len(matches),
        blocks |-> RenderBlocks(matches)]

\* path.join(dirName, match.filePath)
PathJoin(dirName, filePath) == <<dirName, "/">> \o filePath

\* lines 220-226 mutated: the directory name is joined on for one directory too
PrefixMatches_Always(matches, dirCount, searchDir) ==
  [ i \in 1..Len(matches) |->
      [matches[i] EXCEPT !.filePath = PathJoin(Basename(searchDir), @)] ]

\* matches.forEach(match => match.filePath = path.join(dirName, ...)) when
\* more than one directory is searched
PrefixMatches(matches, dirCount, searchDir) ==
  IF dirCount > 1
  THEN [ i \in 1..Len(matches) |->
           [matches[i] EXCEPT !.filePath = PathJoin(Basename(searchDir), @)] ]
  ELSE matches

\* ------------------------------------------------------------------------
\* State
\* ------------------------------------------------------------------------

VARIABLES
  pc,                \* position of execute / performGrepSearch
  workspaceDirs,     \* workspaceContext.getDirectories()
  params,            \* the parameters of the running execute
  searchDirectories, \* execute: the directories to search
  rootIdx,           \* execute: index of the directory being searched
  allMatches,        \* execute: matches collected so far
  result,            \* the ToolResult of the last execute
  isGit,             \* performGrepSearch: isGit
  strategyUsed,      \* performGrepSearch: strategyUsed
  started,           \* strategies started by the running performGrepSearch
  outcome,           \* how each strategy of the running performGrepSearch ended
  pgsResult,         \* what performGrepSearch returned
  gitChild,          \* how the git grep child ended
  grepChild,         \* how the system grep child ended
  stderrText,        \* everything the system grep child writes to stderr
  stderrRest,        \* the part of it not yet delivered as data events
  stderrChunks,      \* system grep promise: stderrChunks
  stderrEvents,      \* number of stderr data events delivered so far
  filesLeft,         \* fallback: files the glob stream has not yielded yet
  filesRead,         \* fallback: files the loop has read
  jsMatches,         \* fallback: allMatches
  statCalls,         \* number of fs.statSync calls of the running execute
  probed,            \* commands probed by the running performGrepSearch
  childProcs,        \* child processes spawned by the running execute
  traversals,        \* glob traversals started by the running execute
  searched,          \* directories performGrepSearch was called on, in call order
  foundIn,           \* per element of allMatches: its directory and its path there
  analyticsEnabled,  \* TestBenchAnalytics.analyticsEnabled
  searchHistory,     \* TestBenchAnalytics.searchHistory, as the identities of its records
  session,           \* the SearchSession a tool holds
  sessionsStarted,   \* number of startSearch calls so far
  lastCall,          \* the last call on the held session and what it returned
  reference,         \* allMatches and result of the same execute with a null session
  heuristic,         \* a call of the ranking heuristics: arguments and return values
  call,              \* a call of another function on its own: arguments and return value
  executes,          \* GrepTool.execute calls running at the same time, by task
  sessions,          \* the SearchSession objects those calls were given, by identity
  download           \* a downloadUrls call: its locals, its downloads and the files written

vars == << pc, workspaceDirs, params, searchDirectories, rootIdx, allMatches,
           result, isGit, strategyUsed, started, outcome, pgsResult, gitChild,
           grepChild, stderrText, stderrRest, stderrChunks, stderrEvents,
           filesLeft, filesRead, jsMatches, statCalls, probed, childProcs, traversals,
           searched, foundIn, analyticsEnabled, searchHistory, session,
           sessionsStarted, lastCall, reference, heuristic, call, executes,
           sessions, download >>

analyticsVars == << analyticsEnabled, searchHistory, session, sessionsStarted, lastCall,
                   reference, heuristic, call, executes, sessions, download >>

\* the null of SearchSession.analytics
NullAnalytics == [isNull |-> TRUE]

\* new SearchSession(null); id, completed and enabledAtStart are not fields of
\* the class: they name the object, record that complete() was called on it
\* and record analyticsEnabled at the time of startSearch
NullSession(id, enabled) ==
  [id |-> id, analytics |-> NullAnalytics, completed |-> FALSE,
   enabledAtStart |-> enabled]

\* no tool holds a session
NoSession == NullSession(0, FALSE)

NoCall == [method |-> "none", returned |-> "undefined"]

NoHeuristic == [called |-> {}]

NoFunctionCall == [fn |-> "none"]

\* the tasks that can run an execute at the same time
MaxTasks == 2
Tasks == 1..MaxTasks

\* a task that is running no execute
NoExecute ==
  [pc |-> "idle", params |-> [pattern |-> NoValue, path |-> NoValue, include |-> NoValue],
   session |-> 0, rootsLeft |-> 0, matches |-> <<>>, pending |-> <<>>,
   filesScanned |-> 0, alone |-> NullSession(0, FALSE)]

\* no downloadUrls call was made
NoDownload ==
  [pc |-> "none", urls |-> <<>>,
   result |-> [successful |-> <<>>, failed |-> <<>>, totalUrls |-> 0, downloadedCount |-> 0],
   batches |-> <<>>, batchIndex |-> 0, batchFrom |-> 0, downloads |-> <<>>, files |-> {}]

NoParams == [pattern |-> NoValue, path |-> NoValue, include |-> NoValue]

NoResult == [kind |-> "none", llmContent |-> "", count |-> 0, blocks |-> <<>>]

NoChild == [state |-> "none", code |-> 0, stdout |-> <<>>]

NoOutcome == [ n \in {"git grep", "system grep", "javascript fallback"} |-> "untried" ]

NoPgsResult == [state |-> "pending", matches |-> <<>>]

\* no tool is running, nothing was searched, analytics is off (the field
\* initialisers of TestBenchAnalytics)
Idle ==
  /\ pc = "idle"
  /\ params = NoParams
  /\ searchDirectories = <<>>
  /\ rootIdx = 0
  /\ allMatches = <<>>
  /\ result = NoResult
  /\ isGit = FALSE
  /\ strategyUsed = "none"
  /\ started = <<>>
  /\ outcome = NoOutcome
  /\ pgsResult = NoPgsResult
  /\ gitChild = NoChild
  /\ grepChild = NoChild
  /\ stderrText = <<>>
  /\ stderrRest = <<>>
  /\ stderrChunks = <<>>
  /\ stderrEvents = 0
  /\ filesLeft = {}
  /\ filesRead = {}
  /\ jsMatches = <<>>
  /\ statCalls = 0
  /\ probed = {}
  /\ childProcs = 0
  /\ traversals = 0
  /\ searched = <<>>
  /\ foundIn = <<>>
  /\ analyticsEnabled = FALSE
  /\ searchHistory = <<>>
  /\ session = NoSession
  /\ sessionsStarted = 0
  /\ lastCall = NoCall
  /\ reference = [allMatches |-> <<>>, result |-> NoResult]
  /\ executes = [ t \in Tasks |-> NoExecute ]
  /\ sessions = << >>
  /\ download = NoDownload

Init ==
  /\ Idle
  /\ workspaceDirs \in WorkspaceConfigs
  /\ heuristic = NoHeuristic
  /\ call = NoFunctionCall

selectorVars == << isGit, strategyUsed, started, outcome, pgsResult, gitChild, grepChild,
                   stderrText, stderrRest, stderrChunks, stderrEvents, filesLeft, filesRead,
                   jsMatches, probed >>

effectVars == << statCalls, childProcs, traversals >>

\* ------------------------------------------------------------------------
\* execute: start, validation, scope resolution
\* ------------------------------------------------------------------------

\* the locals of performGrepSearch are gone once it has returned or thrown
SelectorLocalsGone ==
  /\ isGit' = FALSE
  /\ strategyUsed' = "none"
  /\ started' = <<>>
  /\ outcome' = NoOutcome
  /\ gitChild' = NoChild
  /\ grepChild' = NoChild
  /\ stderrText' = <<>>
  /\ stderrRest' = <<>>
  /\ stderrChunks' = <<>>
  /\ stderrEvents' = 0
  /\ filesLeft' = {}
  /\ filesRead' = {}
  /\ jsMatches' = <<>>
  /\ probed' = {}

\* execute is called: the session is started (lines 178-183)
ExecuteStart ==
  /\ pc = "idle"
  /\ \E p \in Patterns, d \in PathArgs, inc \in Includes :
       params' = [pattern |-> p, path |-> d, include |-> inc]
  /\ pc' = "validate"
  /\ searchDirectories' = <<>>
  /\ rootIdx' = 0
  /\ allMatches' = <<>>
  /\ result' = NoResult
  /\ SelectorLocalsGone
  /\ pgsResult' = NoPgsResult
  /\ statCalls' = 0
  /\ childProcs' = 0
  /\ traversals' = 0
  /\ searched' = <<>>
  /\ foundIn' = <<>>
  /\ UNCHANGED << workspaceDirs, analyticsVars >>

\* validateToolParams and the early return on a validation error
Validate ==
  /\ pc = "validate"
  /\ LET v == validateToolParams(params)
     IN /\ statCalls' = statCalls + v.stats
        /\ IF v.error # NoValue
           THEN /\ result' = ValidationErrorResult(v.error)
                /\ pc' = "done"
           ELSE /\ result' = result
                /\ pc' = "resolve"
  /\ UNCHANGED << workspaceDirs, params, searchDirectories, rootIdx, allMatches,
                  selectorVars, childProcs, traversals, searched, foundIn,
                  analyticsVars >>

\* lines 199-207 mutated: every workspace directory is searched even when a
\* path was given
SearchDirectoriesFor_AllRoots(searchDirAbs, dirs) == dirs

\* lines 199-207: the directories to search
SearchDirectoriesFor(searchDirAbs, dirs) ==
  IF searchDirAbs = NoValue THEN dirs ELSE << searchDirAbs >>

\* lines 195-210: the second resolveAndValidatePath and the choice of the
\* directories to search; a throw is caught by the catch of execute
ResolveScope ==
  /\ pc = "resolve"
  /\ LET r == resolveAndValidatePath(params.path)
     IN /\ statCalls' = statCalls + r.stats
        /\ IF r.threw
           THEN /\ result' = ExecuteCatch(r.value)
                /\ pc' = "done"
                /\ UNCHANGED << searchDirectories, rootIdx >>
           ELSE /\ searchDirectories' = SearchDirectoriesFor(r.value, workspaceDirs)
                /\ rootIdx' = 1
                /\ result' = result
                /\ pc' = "loop"
  /\ UNCHANGED << workspaceDirs, params, allMatches, selectorVars, childProcs,
                  traversals, searched, foundIn,
                  analyticsVars >>

\* ------------------------------------------------------------------------
\* performGrepSearch: the strategy selector, one action per suspension point
\* ------------------------------------------------------------------------

execVars == << workspaceDirs, params, searchDirectories, rootIdx, allMatches,
               result, statCalls, foundIn, analyticsVars >>

\* the loop of execute calls performGrepSearch for the next directory
\* (lines 211-218, 416-422): isGitRepository is evaluated and the first
\* availability probe is spawned
SearchNextRoot ==
  /\ pc = "loop"
  /\ rootIdx <= Len(searchDirectories)
  /\ \E repo \in BOOLEAN :
       /\ isGit' = repo
       /\ IF ProbesGit(repo)
          THEN /\ pc' = "gitProbe"
               /\ probed' = {"git"}
               /\ outcome' = NoOutcome
          ELSE /\ pc' = "grepProbe"
               /\ probed' = {"grep"}
               /\ outcome' = [NoOutcome EXCEPT !["git grep"] = "unavailable"]
  /\ childProcs' = childProcs + 1
  /\ strategyUsed' = "none"
  /\ started' = <<>>
  /\ pgsResult' = NoPgsResult
  /\ gitChild' = NoChild
  /\ grepChild' = NoChild
  /\ stderrText' = <<>>
  /\ stderrRest' = <<>>
  /\ stderrChunks' = <<>>
  /\ stderrEvents' = 0
  /\ filesLeft' = {}
  /\ filesRead' = {}
  /\ jsMatches' = <<>>
  /\ searched' = Append(searched, searchDirectories[rootIdx])
  /\ UNCHANGED << execVars, traversals >>

\* isCommandAvailable('git') settles (lines 422-443): git grep is spawned
\* when git is available, else the grep probe is spawned
GitProbeSettles ==
  /\ pc = "gitProbe"
  /\ \E gitAvailable \in BOOLEAN :
       IF gitAvailable
       THEN /\ strategyUsed' = "git grep"
            /\ started' = Append(started, "git grep")
            /\ pc' = "gitRun"
            /\ UNCHANGED << outcome, probed >>
       ELSE /\ outcome' = [outcome EXCEPT !["git grep"] = "unavailable"]
            /\ probed' = probed \cup {"grep"}
            /\ pc' = "grepProbe"
            /\ UNCHANGED << strategyUsed, started >>
  /\ childProcs' = childProcs + 1
  /\ UNCHANGED << execVars, searched, traversals, isGit, pgsResult, gitChild, grepChild,
                  stderrText, stderrRest, stderrChunks, stderrEvents,
                  filesLeft, filesRead, jsMatches >>

\* what follows the settling of the git grep promise (lines 464-473)
GitSettles(child, settled) ==
  /\ gitChild' = child
  /\ outcome' = [outcome EXCEPT !["git grep"] =
                    IF settled.resolved THEN "succeeded" ELSE "failed"]
  /\ pgsResult' = IF settled.resolved
                  THEN [state |-> "returned", matches |-> parseGrepOutput(settled.output)]
                  ELSE pgsResult
  /\ pc' = AfterGit(settled.resolved)
  /\ IF pc' = "grepProbe"
     THEN /\ probed' = probed \cup {"grep"}
          /\ childProcs' = childProcs + 1
     ELSE UNCHANGED << probed, childProcs >>
  /\ UNCHANGED << execVars, searched, traversals, isGit, strategyUsed, started, grepChild,
                  stderrText, stderrRest, stderrChunks, stderrEvents,
                  filesLeft, filesRead, jsMatches >>

\* the 'close' event of the git grep child (lines 452-462)
GitClose ==
  /\ pc = "gitRun"
  /\ \E code \in ExitCodes, stdoutData \in StdoutTexts :
       GitSettles([state |-> "closed", code |-> code, stdout |-> stdoutData],
                  GitOnClose(code, stdoutData))

\* the 'error' event of the git grep child (lines 449-451)
GitError ==
  /\ pc = "gitRun"
  /\ GitSettles([state |-> "error", code |-> 0, stdout |-> <<>>],
                [resolved |-> FALSE, output |-> <<>>])

\* isCommandAvailable('grep') settles (lines 473-490): system grep is spawned
\* when grep is available; the buffers of the git grep promise are gone
GrepProbeSettles ==
  /\ pc = "grepProbe"
  /\ \E grepAvailable \in BOOLEAN :
       IF grepAvailable
       THEN /\ strategyUsed' = "system grep"
            /\ started' = Append(started, "system grep")
            /\ \E text \in StderrTexts(MaxStderrLines) :
                 /\ stderrText' = text
                 /\ stderrRest' = text
            /\ childProcs' = childProcs + 1
            /\ pc' = "grepRun"
            /\ UNCHANGED outcome
       ELSE /\ outcome' = [outcome EXCEPT !["system grep"] = "unavailable"]
            /\ pc' = "js"
            /\ UNCHANGED << strategyUsed, started, stderrText, stderrRest, childProcs >>
  /\ stderrChunks' = <<>>
  /\ stderrEvents' = 0
  /\ gitChild' = NoChild
  /\ UNCHANGED << execVars, searched, traversals, isGit, pgsResult, grepChild, filesLeft, filesRead,
                  jsMatches, probed >>

\* a 'data' event on the stderr of system grep (onStderr, lines 495-504):
\* the chunk is any non-empty prefix of what is still to be delivered; the
\* last of MaxChunks events delivers all of it
GrepStderrData ==
  /\ pc = "grepRun"
  /\ stderrRest # <<>>
  /\ \E k \in 1..Len(stderrRest) :
       LET chunk == SubSeq(stderrRest, 1, k)
       IN /\ stderrEvents + 1 = MaxChunks => k = Len(stderrRest)
          /\ stderrChunks' = IF onStderrRetains(chunk)
                             THEN Append(stderrChunks, chunk)
                             ELSE stderrChunks
          /\ stderrRest' = SubSeq(stderrRest, k + 1, Len(stderrRest))
  /\ stderrEvents' = stderrEvents + 1
  /\ UNCHANGED << pc, execVars, searched, effectVars, isGit, strategyUsed, started, outcome,
                  pgsResult, gitChild, grepChild, stderrText, filesLeft, filesRead, jsMatches,
                  probed >>

\* what follows the settling of the system grep promise (lines 544-551);
\* the buffers of the promise are dropped with it
GrepSettles(child, settled) ==
  /\ grepChild' = child
  /\ stderrChunks' = <<>>
  /\ stderrEvents' = 0
  /\ outcome' = [outcome EXCEPT !["system grep"] =
                    IF settled.resolved THEN "succeeded" ELSE "failed"]
  /\ pgsResult' = IF settled.resolved
                  THEN [state |-> "returned", matches |-> parseGrepOutput(settled.output)]
                  ELSE pgsResult
  /\ pc' = AfterGrep(settled.resolved)
  /\ UNCHANGED << execVars, searched, effectVars, isGit, strategyUsed, started, gitChild,
                  stderrText, stderrRest, filesLeft, filesRead, jsMatches, probed >>

\* the 'close' event of the system grep child (onClose, lines 509-527); it
\* comes after the streams have ended
GrepClose ==
  /\ pc = "grepRun"
  /\ stderrRest = <<>>
  /\ \E code \in ExitCodes, stdoutData \in StdoutTexts :
       GrepSettles([state |-> "closed", code |-> code, stdout |-> stdoutData],
                   GrepOnClose(code, stdoutData, stderrChunks))

\* the 'error' event of the system grep child (onError, lines 505-508): the
\* child could not be started, so it wrote nothing
GrepError ==
  /\ pc = "grepRun"
  /\ stderrText = <<>>
  /\ GrepSettles([state |-> "error", code |-> 0, stdout |-> <<>>],
                 [resolved |-> FALSE, output |-> <<>>])

\* line 557 mutated: the traversal does not use the include filter
FallbackGlob_IgnoresInclude(include) == "**/*"

\* const globPattern = include ? include : '**/*'
FallbackGlob(include) == IF include # NoValue THEN include ELSE "**/*"

\* the fallback starts (lines 552-576): the glob stream is created and the
\* pattern compiled; the buffers of the system grep promise are gone
JsStart ==
  /\ pc = "js"
  /\ strategyUsed' = "javascript fallback"
  /\ started' = Append(started, "javascript fallback")
  /\ LET globPattern == FallbackGlob(params.include)
     IN filesLeft' = { f \in TreeFiles : GlobMatches(globPattern, f) }
  /\ jsMatches' = <<>>
  /\ filesRead' = {}
  /\ traversals' = traversals + 1
  /\ pc' = "jsIter"
  /\ grepChild' = NoChild
  /\ stderrText' = <<>>
  /\ UNCHANGED << execVars, searched, childProcs, isGit, outcome, pgsResult, gitChild,
                  stderrRest, stderrChunks, stderrEvents, probed >>

\* the loop body mutated: the catch of a read error empties allMatches
ReadAndTest_FailureDiscards(matches, f, readOk, pattern) ==
  IF readOk THEN matches \o FileMatches(f, pattern) ELSE <<>>

\* the body of the for-await loop (lines 580-601): allMatches after file f
\* was read and its lines tested, or after its read error was caught
ReadAndTest(matches, f, readOk, pattern) ==
  IF readOk THEN matches \o FileMatches(f, pattern) ELSE matches

\* one turn of the for-await loop (lines 578-602): the stream yields a file,
\* it is read and its lines tested; a read error is swallowed
JsFile ==
  /\ pc = "jsIter"
  /\ \E f \in filesLeft, readOk \in BOOLEAN :
       /\ filesLeft' = filesLeft \ {f}
       /\ filesRead' = IF readOk THEN filesRead \cup {f} ELSE filesRead
       /\ jsMatches' = ReadAndTest(jsMatches, f, readOk, params.pattern)
  /\ UNCHANGED << pc, execVars, searched, effectVars, isGit, strategyUsed, started, outcome,
                  pgsResult, gitChild, grepChild, stderrText, stderrRest,
                  stderrChunks, stderrEvents, probed >>

\* the glob stream ends: performGrepSearch returns allMatches (line 604)
JsEnd ==
  /\ pc = "jsIter"
  /\ filesLeft = {}
  /\ outcome' = [outcome EXCEPT !["javascript fallback"] = "succeeded"]
  /\ pgsResult' = [state |-> "returned", matches |-> jsMatches]
  /\ pc' = "pgsReturn"
  /\ UNCHANGED << execVars, searched, effectVars, isGit, strategyUsed, started, gitChild,
                  grepChild, stderrText, stderrRest, stderrChunks,
                  stderrEvents, filesLeft, filesRead,
                  jsMatches, probed >>

\* the glob stream throws (traversal fault or abort): the outer catch of
\* performGrepSearch rethrows (lines 605-610)
JsThrows ==
  /\ pc = "jsIter"
  /\ outcome' = [outcome EXCEPT !["javascript fallback"] = "threw"]
  /\ pgsResult' = [state |-> "threw", matches |-> <<>>]
  /\ pc' = "pgsThrow"
  /\ UNCHANGED << execVars, searched, effectVars, isGit, strategyUsed, started, gitChild,
                  grepChild, stderrText, stderrRest, stderrChunks,
                  stderrEvents, filesLeft, filesRead,
                  jsMatches, probed >>

\* ------------------------------------------------------------------------
\* execute: collecting the matches and returning
\* ------------------------------------------------------------------------

\* performGrepSearch returned to the loop of execute (lines 219-229)
CollectMatches ==
  /\ pc = "pgsReturn"
  /\ allMatches' = allMatches \o
       PrefixMatches(pgsResult.matches, Len(searchDirectories),
                     searchDirectories[rootIdx])
  /\ foundIn' = foundIn \o
       [ i \in 1..Len(pgsResult.matches) |->
           [dir |-> searchDirectories[rootIdx],
            filePath |-> pgsResult.matches[i].filePath] ]
  /\ rootIdx' = rootIdx + 1
  /\ pc' = "loop"
  /\ SelectorLocalsGone
  /\ pgsResult' = NoPgsResult
  /\ UNCHANGED << workspaceDirs, params, searchDirectories, result, effectVars,
                  searched, analyticsVars >>

\* performGrepSearch threw: the catch of execute (lines 285-293)
CatchSearchError ==
  /\ pc = "pgsThrow"
  /\ result' = ExecuteCatch("search failed")
  /\ pc' = "done"
  /\ SelectorLocalsGone
  /\ UNCHANGED << workspaceDirs, params, searchDirectories, rootIdx, allMatches,
                  pgsResult, effectVars, searched, foundIn,
                  analyticsVars >>

\* every directory was searched: the result is rendered (lines 231-284)
Render ==
  /\ pc = "loop"
  /\ rootIdx > Len(searchDirectories)
  /\ result' = RenderResult(allMatches)
  /\ pc' = "done"
  /\ UNCHANGED << workspaceDirs, params, searchDirectories, rootIdx, allMatches,
                  selectorVars, effectVars, searched, foundIn,
                  analyticsVars >>

\* execute has returned; the tool can be called again
Return ==
  /\ pc = "done"
  /\ pc' = "idle"
  /\ UNCHANGED << workspaceDirs, params, searchDirectories, rootIdx, allMatches,
                  result, selectorVars, effectVars, searched, foundIn,
                  analyticsVars >>

Next ==
  \/ ExecuteStart
  \/ Validate
  \/ ResolveScope
  \/ SearchNextRoot
  \/ GitProbeSettles
  \/ GitClose
  \/ GitError
  \/ GrepProbeSettles
  \/ GrepStderrData
  \/ GrepClose
  \/ GrepError
  \/ JsStart
  \/ JsFile
  \/ JsEnd
  \/ JsThrows
  \/ CollectMatches
  \/ CatchSearchError
  \/ Render
  \/ Return

Spec == Init /\ [][Next]_vars

\* ------------------------------------------------------------------------
\* TestBenchAnalytics and SearchSession (testBenchAnalytics.ts), with the
\* /testbench sub-commands that change them (testBenchCommand.ts)
\* ------------------------------------------------------------------------

MaxSessions == 2   \* startSearch calls
MaxHistory == 2    \* length of searchHistory
MaxMatches == 2    \* matchDetails of one record
MaxFactors == 1    \* rankingFactors of one record

\* the searchType of GrepTool.execute and of ReadFileTool.execute
SearchTypes == {"grep", "read_files"}

\* MatchAnalytics values, relevanceScore in tenths
MatchItems ==
  { [filePath |-> FileA, lineNumber |-> 2, relevanceScore |-> 7],
    [filePath |-> FileB, lineNumber |-> 1, relevanceScore |-> 9] }

\* the record startSearch allocates (lines 121-131); query, timestamp,
\* targetPath and searchStrategy are never written again and are left out
NewAnalytics(searchType) ==
  [isNull |-> FALSE, searchType |-> searchType, executionTimeMs |-> 0,
   resultsFound |-> 0, filesScanned |-> 0, matchDetails |-> <<>>,
   pattern |-> NoValue, rankingFactors |-> <<>>, hasRankingFactors |-> FALSE,
   toolDecisionReason |-> NoValue, searchParameters |-> NoValue]

\* startSearch mutated: a record is allocated whether analytics is enabled
\* or not
startSearch_AlwaysRecords(enabled, id, searchType) ==
  [id |-> id, analytics |-> NewAnalytics(searchType), completed |-> FALSE,
   enabledAtStart |-> enabled]

\* TestBenchAnalytics.startSearch
startSearch(enabled, id, searchType) ==
  IF ~enabled
  THEN NullSession(id, enabled)
  ELSE [id |-> id, analytics |-> NewAnalytics(searchType), completed |-> FALSE,
        enabledAtStart |-> enabled]

\* SearchSession.isActive
isActive(s) == s.analytics # NullAnalytics

\* SearchSession.addMatch mutated: the match is pushed and resultsFound is
\* not incremented
addMatch_NoCount(s, match) ==
  IF isActive(s)
  THEN [s EXCEPT !.analytics.matchDetails = Append(@, match)]
  ELSE s

\* SearchSession.addMatch
addMatch(s, match) ==
  IF isActive(s)
  THEN [s EXCEPT !.analytics.matchDetails = Append(@, match),
                 !.analytics.resultsFound = @ + 1]
  ELSE s

\* SearchSession.setFilesScanned
setFilesScanned(s, count) ==
  IF isActive(s) THEN [s EXCEPT !.analytics.filesScanned = count] ELSE s

\* SearchSession.setPattern
setPattern(s, pattern) ==
  IF isActive(s) THEN [s EXCEPT !.analytics.pattern = pattern] ELSE s

\* SearchSession.addRankingFactor
addRankingFactor(s, factor) ==
  IF isActive(s)
  THEN [s EXCEPT !.analytics.hasRankingFactors = TRUE,
                 !.analytics.rankingFactors = Append(@, factor)]
  ELSE s

\* SearchSession.setToolDecisionReason
setToolDecisionReason(s, reason) ==
  IF isActive(s) THEN [s EXCEPT !.analytics.toolDecisionReason = reason] ELSE s

\* SearchSession.setSearchParameters
setSearchParameters(s, p) ==
  IF isActive(s) THEN [s EXCEPT !.analytics.searchParameters = p] ELSE s

RECURSIVE InsertByRelevance(_, _)
\* where a stable sort by descending relevanceScore puts m when it follows
\* the elements of sorted in the array
InsertByRelevance(sorted, m) ==
  IF sorted = <<>> THEN << m >>
  ELSE IF sorted[Len(sorted)].relevanceScore >= m.relevanceScore
       THEN Append(sorted, m)
       ELSE Append(InsertByRelevance(SubSeq(sorted, 1, Len(sorted) - 1), m),
                   sorted[Len(sorted)])

RECURSIVE SortByRelevance(_)
\* logSearchResults: analytics.matchDetails.sort(...) sorts the array of
\* the record in place
SortByRelevance(details) ==
  IF details = <<>> THEN <<>>
  ELSE InsertByRelevance(SortByRelevance(SubSeq(details, 1, Len(details) - 1)),
                         details[Len(details)])

\* the onComplete callback mutated: the history is replaced by the record
complete_ReplacesHistory(s, history) ==
  IF isActive(s)
  THEN [session |-> [s EXCEPT !.analytics.executionTimeMs = 1,
                              !.analytics.matchDetails = SortByRelevance(@),
                              !.completed = TRUE],
        history |-> << s.id >>,
        returned |-> "analytics"]
  ELSE [session |-> [s EXCEPT !.completed = TRUE],
        history |-> history,
        returned |-> "null"]

\* SearchSession.complete with the onComplete callback of startSearch: the
\* session after the call, the history after the call (the callback pushes
\* the record, that is its identity) and the value returned
complete(s, history) ==
  IF isActive(s)
  THEN [session |-> [s EXCEPT !.analytics.executionTimeMs = 1,
                              !.analytics.matchDetails = SortByRelevance(@),
                              !.completed = TRUE],
        history |-> Append(history, s.id),
        returned |-> "analytics"]
  ELSE [session |-> [s EXCEPT !.completed = TRUE],
        history |-> history,
        returned |-> "null"]

\* everything but the analytics service and the function called on its own
toolVars == << pc, workspaceDirs, params, searchDirectories, rootIdx, allMatches,
               result, selectorVars, effectVars, searched, foundIn, reference,
               heuristic >>

mainVars == << toolVars, call, executes, sessions, download >>

\* /testbench enable and /testbench disable: enableAnalytics(enabled)
EnableAnalytics ==
  /\ \E enabled \in BOOLEAN : analyticsEnabled' = enabled
  /\ UNCHANGED << mainVars, searchHistory, session, sessionsStarted, lastCall >>

\* /testbench clear: handleClear
HandleClear ==
  /\ searchHistory' = <<>>
  /\ UNCHANGED << mainVars, analyticsEnabled, session, sessionsStarted, lastCall >>

\* a tool starts a search; the session a tool held before is no longer
\* referenced by it
StartSearch ==
  /\ sessionsStarted < MaxSessions
  /\ sessionsStarted' = sessionsStarted + 1
  /\ \E searchType \in SearchTypes :
       session' = startSearch(analyticsEnabled, sessionsStarted + 1, searchType)
  /\ lastCall' = [method |-> "startSearch", returned |-> "session"]
  /\ UNCHANGED << mainVars, analyticsEnabled, searchHistory >>

\* one of the void methods of the held session is called
SessionCall(method, after) ==
  /\ session.id # 0
  /\ session' = after
  /\ lastCall' = [method |-> method, returned |-> "undefined"]
  /\ UNCHANGED << mainVars, analyticsEnabled, searchHistory, sessionsStarted >>

AddMatch ==
  /\ isActive(session) => Len(session.analytics.matchDetails) < MaxMatches
  /\ \E m \in MatchItems : SessionCall("addMatch", addMatch(session, m))

SetFilesScanned == SessionCall("setFilesScanned", setFilesScanned(session, 1))

SetPattern == SessionCall("setPattern", setPattern(session, "a"))

AddRankingFactor ==
  /\ isActive(session) => Len(session.analytics.rankingFactors) < MaxFactors
  /\ SessionCall("addRankingFactor", addRankingFactor(session, "pattern_complexity"))

SetToolDecisionReason ==
  SessionCall("setToolDecisionReason", setToolDecisionReason(session, "reason"))

SetSearchParameters ==
  SessionCall("setSearchParameters", setSearchParameters(session, "params"))

IsActive ==
  /\ session.id # 0
  /\ lastCall' = [method |-> "isActive",
                  returned |-> IF isActive(session) THEN "true" ELSE "false"]
  /\ UNCHANGED << mainVars, analyticsEnabled, searchHistory, session,
                  sessionsStarted >>

Complete ==
  /\ session.id # 0
  /\ isActive(session) => Len(searchHistory) < MaxHistory
  /\ LET c == complete(session, searchHistory)
     IN /\ session' = c.session
        /\ searchHistory' = c.history
        /\ lastCall' = [method |-> "complete", returned |-> c.returned]
  /\ UNCHANGED << mainVars, analyticsEnabled, sessionsStarted >>

SessionInit == Init /\ workspaceDirs = << TargetDir >>

SessionNext ==
  \/ EnableAnalytics
  \/ HandleClear
  \/ StartSearch
  \/ AddMatch
  \/ SetFilesScanned
  \/ SetPattern
  \/ AddRankingFactor
  \/ SetToolDecisionReason
  \/ SetSearchParameters
  \/ IsActive
  \/ Complete

SpecSession == SessionInit /\ [][SessionNext]_vars

\* ------------------------------------------------------------------------
\* Ranking heuristics (GrepTool.calculateRelevanceScore, getMatchReason,
\* calculatePatternComplexity); scores are counted in tenths, complexities
\* in hundredths
\* ------------------------------------------------------------------------

Min(a, b) == IF a <= b THEN a ELSE b

\* n times the character c
Repeat(c, n) == [ i \in 1..n |-> c ]

\* String.prototype.toLowerCase
ToLowerCase(str) == [ i \in 1..Len(str) |-> LowerChar(str[i]) ]

\* toUpperCase of one character
UpperChar(c) ==
  IF c = "a" THEN "A" ELSE IF c = "b" THEN "B" ELSE IF c = "d" THEN "D"
  ELSE IF c = "s" THEN "S" ELSE IF c = "w" THEN "W" ELSE c

\* String.prototype.toUpperCase
ToUpperCase(str) == [ i \in 1..Len(str) |-> UpperChar(str[i]) ]

\* the (0-based) positions at which needle occurs in str
Occurrences(str, needle) ==
  { i \in 0..(Len(str) - Len(needle)) : SubSeq(str, i + 1, i + Len(needle)) = needle }

\* String.prototype.includes
StrIncludes(str, needle) == Occurrences(str, needle) # {}

\* String.prototype.indexOf: -1 when needle does not occur
StrIndexOf(str, needle) ==
  IF Occurrences(str, needle) = {} THEN -1
  ELSE CHOOSE i \in Occurrences(str, needle) :
         \A j \in Occurrences(str, needle) : i <= j

\* new RegExp(pattern, 'i').test(line) for patterns of letters and '.'
RegExpTest(pattern, line) ==
  \E i \in 0..(Len(line) - Len(pattern)) :
    \A k \in 1..Len(pattern) :
      \/ pattern[k] = "." /\ line[i + k] \notin {EOL, "\r"}
      \/ pattern[k] # "." /\ LowerChar(line[i + k]) = LowerChar(pattern[k])

\* path.basename for a path with '/' separators
BasenameOf(filePath) ==
  LET slashes == { i \in 1..Len(filePath) : filePath[i] = "/" }
  IN IF slashes = {} THEN filePath
     ELSE SubSeq(filePath,
                 (CHOOSE i \in slashes : \A j \in slashes : j <= i) + 1,
                 Len(filePath))

\* path.extname: from the last '.' of the base name on, '' when there is
\* none or when it is the first character of the base name
Extname(filePath) ==
  LET base == BasenameOf(filePath)
      dots == { i \in 1..Len(base) : base[i] = "." }
  IN IF dots = {} THEN <<>>
     ELSE LET last == CHOOSE i \in dots : \A j \in dots : j <= i
          IN IF last = 1 THEN <<>> ELSE SubSeq(base, last, Len(base))

FavoredExtensions ==
  { <<".", "m", "d">>, <<".", "t", "x", "t">>, <<".", "j", "s">>, <<".", "t", "s">>,
    <<".", "p", "y">>, <<".", "j", "a", "v", "a">> }

\* the sum of calculateRelevanceScore before Math.min(1, score)
RelevanceSum(match, pattern) ==
  LET trimmedLine == Trim(match.line)
      lineLength == Len(trimmedLine)
      matchIndex == StrIndexOf(ToLowerCase(trimmedLine), ToLowerCase(pattern))
      ext == ToLowerCase(Extname(match.filePath))
  IN 5
     + (IF StrIncludes(ToLowerCase(match.line), ToLowerCase(pattern)) THEN 2 ELSE 0)
     + (IF lineLength < 100 THEN 1 ELSE 0)
     + (IF lineLength < 50 THEN 1 ELSE 0)
     + (IF matchIndex < 10 THEN 1 ELSE 0)
     + (IF ext \in FavoredExtensions THEN 1 ELSE 0)

\* calculateRelevanceScore mutated: the sum is returned without Math.min
calculateRelevanceScore_NoClamp(match, pattern) == RelevanceSum(match, pattern)

\* GrepTool.calculateRelevanceScore
calculateRelevanceScore(match, pattern) == Min(10, RelevanceSum(match, pattern))

\* reasons.join(', ')
RECURSIVE JoinReasons(_)
JoinReasons(reasons) ==
  IF reasons = <<>> THEN <<>>
  ELSE IF Len(reasons) = 1 THEN reasons[1]
  ELSE reasons[1] \o <<", ">> \o JoinReasons(Tail(reasons))

\* GrepTool.getMatchReason; a reason is a sequence of text fragments
getMatchReason(match, pattern) ==
  LET ext == Extname(match.filePath)
      reasons ==
        (IF StrIncludes(ToLowerCase(match.line), ToLowerCase(pattern))
         THEN << <<"exact pattern match">> >> ELSE <<>>)
        \o (IF RegExpTest(pattern, match.line)
            THEN << <<"regex pattern match">> >> ELSE <<>>)
        \o (IF ext # <<>> THEN << <<"found in ">> \o ext \o <<" file">> >> ELSE <<>>)
        \o (IF match.lineNumber < 10 THEN << <<"near file beginning">> >> ELSE <<>>)
      joined == JoinReasons(reasons)
  IN IF joined = <<>> THEN <<"pattern match">> ELSE joined

\* the characters of /[.*+?^${}()|[\]\\]/
RegexChars == {".", "*", "+", "?", "^", "$", "{", "}", "(", ")", "|", "[", "]", "\\"}

\* calculatePatternComplexity mutated: the length factor has no cap
calculatePatternComplexity_NoLengthCap(pattern) ==
  LET regexMatches == { i \in 1..Len(pattern) : pattern[i] \in RegexChars }
  IN Min((IF regexMatches # {} THEN Min(Cardinality(regexMatches) * 10, 50) ELSE 0)
         + Len(pattern)
         + (IF pattern # ToLowerCase(pattern) /\ pattern # ToUpperCase(pattern)
            THEN 10 ELSE 0)
         + (IF \/ StrIncludes(pattern, <<"\\", "b">>)
               \/ StrIncludes(pattern, <<"\\", "w">>)
               \/ StrIncludes(pattern, <<"\\", "d">>)
            THEN 20 ELSE 0),
         100)

\* GrepTool.calculatePatternComplexity
calculatePatternComplexity(pattern) ==
  LET regexMatches == { i \in 1..Len(pattern) : pattern[i] \in RegexChars }
  IN Min((IF regexMatches # {} THEN Min(Cardinality(regexMatches) * 10, 50) ELSE 0)
         + Min(Len(pattern), 30)
         + (IF pattern # ToLowerCase(pattern) /\ pattern # ToUpperCase(pattern)
            THEN 10 ELSE 0)
         + (IF \/ StrIncludes(pattern, <<"\\", "b">>)
               \/ StrIncludes(pattern, <<"\\", "w">>)
               \/ StrIncludes(pattern, <<"\\", "d">>)
            THEN 20 ELSE 0),
         100)

\* lines: optional leading blank, filler, a short text, filler
ScoreLines ==
  { Repeat(" ", sp) \o Repeat("z", pre) \o core \o Repeat("z", tail) :
      sp \in {0, 1}, pre \in {0, 10}, core \in {<<>>, <<"A">>, <<"a", "b">>},
      tail \in {0, 48, 99} }

ScorePatterns == { <<"a">>, <<"A">>, <<"a", "b">>, <<".", "b">>, <<"q">> }

ScoreFiles ==
  { FileA, FileB, <<"M", "a", "k", "e">>, <<"c", ".", "c">>, <<"d", ".", "M", "D">>,
    <<"s", "/", ".", "e", "n", "v">> }

ScoreLineNumbers == {9, 10}

MaxCore == 2   \* length of the freely chosen part of a pattern

ComplexityAlphabet == {"a", "A", "\\", "b", "d", "s", "w", "."}

RECURSIVE SeqsUpTo(_, _)
\* the sequences over alphabet of length at most n
SeqsUpTo(alphabet, n) ==
  IF n = 0 THEN { <<>> }
  ELSE SeqsUpTo(alphabet, n - 1)
       \cup { Append(q, c) : q \in SeqsUpTo(alphabet, n - 1), c \in alphabet }

\* fillers that take a pattern up to and over the caps of the metacharacter
\* factor (5 occurrences) and of the length factor (30 characters)
ComplexityFillers ==
  { Repeat(".", dots) \o Repeat(letter, letters) :
      dots \in {0, 5, 6}, letter \in {"a", "A"}, letters \in {0, 29, 30} }

ComplexityPatterns ==
  { core \o filler : core \in SeqsUpTo(ComplexityAlphabet, MaxCore),
                     filler \in ComplexityFillers }

\* createMatchAnalytics is about to score a match
ScoreInit ==
  /\ Idle
  /\ workspaceDirs = << TargetDir >>
  /\ heuristic \in
       { [called |-> {},
          match |-> [filePath |-> f, lineNumber |-> n, line |-> l],
          pattern |-> p, score |-> NaN, reason |-> <<>>] :
         f \in ScoreFiles, n \in ScoreLineNumbers, l \in ScoreLines,
         p \in ScorePatterns }
  /\ call = NoFunctionCall

CalculateRelevanceScore ==
  /\ "calculateRelevanceScore" \notin heuristic.called
  /\ heuristic' =
       [heuristic EXCEPT !.called = @ \cup {"calculateRelevanceScore"},
                         !.score = calculateRelevanceScore(heuristic.match,
                                                           heuristic.pattern)]
  /\ UNCHANGED << pc, workspaceDirs, params, searchDirectories, rootIdx, allMatches,
                  result, selectorVars, effectVars, searched, foundIn,
                  analyticsEnabled, searchHistory, session, sessionsStarted,
                  lastCall, reference, call, executes, sessions, download >>

GetMatchReason ==
  /\ "getMatchReason" \notin heuristic.called
  /\ heuristic' =
       [heuristic EXCEPT !.called = @ \cup {"getMatchReason"},
                         !.reason = getMatchReason(heuristic.match, heuristic.pattern)]
  /\ UNCHANGED << pc, workspaceDirs, params, searchDirectories, rootIdx, allMatches,
                  result, selectorVars, effectVars, searched, foundIn,
                  analyticsEnabled, searchHistory, session, sessionsStarted,
                  lastCall, reference, call, executes, sessions, download >>

ScoreNext ==
  \/ CalculateRelevanceScore
  \/ GetMatchReason

SpecScore == ScoreInit /\ [][ScoreNext]_vars

\* addSearchRankingFactors is about to rate a pattern
ComplexityInit ==
  /\ Idle
  /\ workspaceDirs = << TargetDir >>
  /\ heuristic \in
       { [called |-> {}, pattern |-> p, complexity |-> NaN] :
         p \in ComplexityPatterns }
  /\ call = NoFunctionCall

CalculatePatternComplexity ==
  /\ "calculatePatternComplexity" \notin heuristic.called
  /\ heuristic' =
       [heuristic EXCEPT !.called = @ \cup {"calculatePatternComplexity"},
                         !.complexity = calculatePatternComplexity(heuristic.pattern)]
  /\ UNCHANGED << pc, workspaceDirs, params, searchDirectories, rootIdx, allMatches,
                  result, selectorVars, effectVars, searched, foundIn,
                  analyticsEnabled, searchHistory, session, sessionsStarted,
                  lastCall, reference, call, executes, sessions, download >>

ComplexityNext == CalculatePatternComplexity

SpecComplexity == ComplexityInit /\ [][ComplexityNext]_vars

\* ------------------------------------------------------------------------
\* parseGrepOutput on the output of one child: well-formed lines
\* path:lineNumber:content whose path and content may contain colons
\* ------------------------------------------------------------------------

MaxOutputLines == 2   \* lines of the output of a child

\* file paths as git grep and grep print them, two of them with a colon
OutputPaths == { FileA, <<"s", "/", "b", ".", "m", "d">>, <<"c", ":", "d">>,
                 <<"a", ":", "1">> }

OutputLineNumbers == { <<"1">>, <<"1", "2">> }

\* line contents, one of them empty and one with a colon
OutputContents == { <<>>, <<"x">>, <<"k", ":", "v">> }

\* what a child printed for one match, before the line is written
OutputEntries ==
  { [path |-> f, number |-> n, content |-> c] :
      f \in OutputPaths, n \in OutputLineNumbers, c \in OutputContents }

\* the output line of an entry, with its line terminator
OutputLine(e) == e.path \o <<":">> \o e.number \o <<":">> \o e.content \o <<EOL>>

RECURSIVE OutputText(_)
\* the stdout text of a sequence of entries
OutputText(entries) ==
  IF entries = <<>> THEN <<>>
  ELSE OutputLine(Head(entries)) \o OutputText(Tail(entries))

\* lines that are no match line: a blank one, one without a colon, one with
\* a single colon
OtherLines == { <<" ">>, <<"x">>, <<"a", ":", "1">> }

\* the stdout text of the entries with the line other, if there is one,
\* after the first otherAt entries
OutputTextWith(entries, other, otherAt) ==
  IF ~other.present THEN OutputText(entries)
  ELSE OutputText(SubSeq(entries, 1, otherAt)) \o other.line \o <<EOL>>
       \o OutputText(SubSeq(entries, otherAt + 1, Len(entries)))

\* a child has printed its matches, possibly with another line among them,
\* and closed with code 0
ParseInit ==
  /\ Idle
  /\ workspaceDirs = << TargetDir >>
  /\ heuristic = NoHeuristic
  /\ call \in { [fn |-> "pending", entries |-> es, other |-> o, otherAt |-> k,
                 returned |-> <<>>] :
                  es \in { q \in SeqsUpTo(OutputEntries, MaxOutputLines) : q # <<>> },
                  o \in { [present |-> TRUE, line |-> l] : l \in OtherLines }
                        \cup { [present |-> FALSE, line |-> <<>>] },
                  k \in 0..MaxOutputLines }
  /\ call.otherAt <= Len(call.entries)
  /\ ~call.other.present => call.otherAt = 0

\* the close handler hands the output to parseGrepOutput
ParseGrepOutput ==
  /\ call.fn = "pending"
  /\ call' = [call EXCEPT !.fn = "parseGrepOutput",
                          !.returned = parseGrepOutput(
                            OutputTextWith(call.entries, call.other, call.otherAt))]
  /\ UNCHANGED << toolVars, analyticsEnabled, searchHistory, session,
                  sessionsStarted, lastCall, executes, sessions, download >>

ParseNext == ParseGrepOutput

SpecParse == ParseInit /\ [][ParseNext]_vars

\* ------------------------------------------------------------------------
\* What each strategy reports for one line of a file: the children are
\* given their argument lists, the fallback tests the line itself
\* ------------------------------------------------------------------------

\* gitArgs (lines 425-435); an argument is the sequence of its text
\* fragments
gitArgs(pattern, include) ==
  << <<"grep">>, <<"--untracked">>, <<"-n">>, <<"-E">>, <<"--ignore-case">>,
     <<pattern>> >>
  \o (IF include # NoValue THEN << <<"--">>, <<include>> >> ELSE <<>>)

\* grepArgs (lines 476-483)
grepArgs(pattern, include) ==
  << <<"-r">>, <<"-n">>, <<"-H">>, <<"-E">>, <<"--exclude-dir=", ".git">>,
     <<"--exclude-dir=", "node_modules">>, <<"--exclude-dir=", "bower_components">> >>
  \o (IF include # NoValue THEN << <<"--include=", include>> >> ELSE <<>>)
  \o << <<pattern>>, <<".">> >>

\* whether git grep or grep, run with the arguments args, prints the line
\* for a one-letter pattern: letter case counts unless -i or --ignore-case
\* is among the arguments
ChildPrintsLine(args, pattern, line) ==
  IF \E k \in 1..Len(args) : args[k] \in { <<"-i">>, <<"--ignore-case">> }
  THEN \E i \in 1..Len(line) : LowerChar(line[i]) = LowerChar(pattern)
  ELSE \E i \in 1..Len(line) : line[i] = pattern

\* whether the strategy reports the line
StrategyReports(strategy, pattern, include, line) ==
  CASE strategy = "git grep" -> ChildPrintsLine(gitArgs(pattern, include), pattern, line)
    [] strategy = "system grep" -> ChildPrintsLine(grepArgs(pattern, include), pattern, line)
    [] strategy = "javascript fallback" -> RegexTestIgnoreCase(pattern, line)

MaxLineLen == 2   \* length of the line that is searched

CasePatterns == {"a", "A", "q", "Q"}

CaseLines == SeqsUpTo({"a", "A", "q", "z"}, MaxLineLen)

\* a strategy is about to search a file with one line
CaseInit ==
  /\ Idle
  /\ workspaceDirs = << TargetDir >>
  /\ heuristic = NoHeuristic
  /\ call \in { [fn |-> "pending", strategy |-> st, pattern |-> p, include |-> inc,
                 line |-> l, reported |-> FALSE] :
                  st \in {"git grep", "system grep", "javascript fallback"},
                  p \in CasePatterns, inc \in Includes, l \in CaseLines }

\* the strategy searches the line
StrategySearches ==
  /\ call.fn = "pending"
  /\ call' = [call EXCEPT !.fn = "searched",
                          !.reported = StrategyReports(call.strategy, call.pattern,
                                                       call.include, call.line)]
  /\ UNCHANGED << toolVars, analyticsEnabled, searchHistory, session,
                  sessionsStarted, lastCall, executes, sessions, download >>

CaseNext == StrategySearches

SpecCase == CaseInit /\ [][CaseNext]_vars

\* ------------------------------------------------------------------------
\* ReadFileTool.execute with its analytics session; /testbench enable,
\* /testbench disable and /testbench clear can run while the file read is
\* awaited
\* ------------------------------------------------------------------------

\* the ToolResult of ReadFileTool.execute, by the return statement it is from
ReadFileResult(kind) == [NoResult EXCEPT !.kind = kind]

\* the match ReadFileTool.execute adds: relevanceScore 1.0 in tenths
ReadFileMatch == [filePath |-> FileA, lineNumber |-> 0, relevanceScore |-> 10]

ReadFileInit ==
  /\ Idle
  /\ workspaceDirs = << TargetDir >>
  /\ heuristic = NoHeuristic
  /\ call = NoFunctionCall

readFileFrame == << workspaceDirs, params, searchDirectories, rootIdx, allMatches,
                   selectorVars, effectVars, searched, foundIn, reference, heuristic,
                   call, executes, sessions, download, lastCall >>

\* execute up to the await: validateToolParams, then analyticsSession is null
\* or the session of startSearch with its decision reason and parameters
ReadFileExecuteStart ==
  /\ pc = "idle"
  /\ sessionsStarted < MaxSessions
  /\ \E validationError \in BOOLEAN :
       IF validationError
       THEN /\ pc' = "readFileReturned"
            /\ result' = ReadFileResult("invalid-parameters")
            /\ session' = NoSession
            /\ UNCHANGED sessionsStarted
       ELSE /\ pc' = "readFileAwait"
            /\ result' = NoResult
            /\ IF analyticsEnabled
               THEN /\ session' =
                         setSearchParameters(
                           setToolDecisionReason(
                             startSearch(analyticsEnabled, sessionsStarted + 1, "read_files"),
                             "single file access"),
                           "absolute_path")
                    /\ sessionsStarted' = sessionsStarted + 1
               ELSE /\ session' = NoSession
                    /\ UNCHANGED sessionsStarted
  /\ UNCHANGED << readFileFrame, analyticsEnabled, searchHistory >>

\* processSingleFileContent settles and execute runs to its return: the
\* session is touched only if there is one and analytics is enabled now
ReadFileSettles ==
  /\ pc = "readFileAwait"
  /\ pc' = "readFileReturned"
  /\ \E readError \in BOOLEAN :
       LET tracked == session # NoSession /\ analyticsEnabled
           onError == complete(session, searchHistory)
           onSuccess == complete(setFilesScanned(addMatch(session, ReadFileMatch), 1),
                                 searchHistory)
           done == IF readError THEN onError ELSE onSuccess
       IN /\ result' = ReadFileResult(IF readError THEN "read-error" ELSE "content")
          /\ IF tracked
             THEN /\ session' = done.session
                  /\ searchHistory' = done.history
             ELSE UNCHANGED << session, searchHistory >>
  /\ UNCHANGED << readFileFrame, analyticsEnabled, sessionsStarted >>

\* the caller has the result; the tool can be called again
ReadFileReturn ==
  /\ pc = "readFileReturned"
  /\ pc' = "idle"
  /\ UNCHANGED << readFileFrame, result, analyticsEnabled, searchHistory, session,
                  sessionsStarted >>

ReadFileNext ==
  \/ ReadFileExecuteStart
  \/ ReadFileSettles
  \/ ReadFileReturn
  \/ EnableAnalytics
  \/ HandleClear

SpecReadFile == ReadFileInit /\ [][ReadFileNext]_vars

\* ------------------------------------------------------------------------
\* UrlContentDownloader.downloadUrls: batches of downloadSingleUrl calls
\* that run at the same time, each awaiting its fetch and then its write
\* ------------------------------------------------------------------------

\* the field maxConcurrentDownloads; 50 in the source, scaled down so that a
\* few URLs make several batches
maxConcurrentDownloads == 2

MaxUrls == 3   \* length of the urls argument

\* URLs as new URL(url) sees them: the hostname and the non-empty segments
\* of the pathname, text as sequences of characters
UrlA == [hostname |-> <<"a">>, segments |-> << <<"d", "c">> >>]
UrlB == [hostname |-> <<"b">>, segments |-> << <<"v">>, <<"d", "c">> >>]
UrlC == [hostname |-> <<"c">>, segments |-> << >>]

Urls == {UrlA, UrlB, UrlC}

\* what fetch can give: a rejection or a response that is not ok, a
\* response that is not html, an html page with a title, an html page whose
\* title is blank; title is the text between the title tags, empty when the
\* regular expression finds none
Responses ==
  { [ok |-> FALSE, html |-> FALSE, title |-> <<>>],
    [ok |-> TRUE, html |-> FALSE, title |-> <<>>],
    [ok |-> TRUE, html |-> TRUE, title |-> <<"d", ":", " ", "c">>],
    [ok |-> TRUE, html |-> TRUE, title |-> <<" ">>] }

\* chunkArray mutated: the whole array is one chunk
chunkArray_OneChunk(array, chunkSize) ==
  IF array = <<>> THEN <<>> ELSE << array >>

\* chunkArray
chunkArray(array, chunkSize) ==
  [ k \in 1..((Len(array) + chunkSize - 1) \div chunkSize) |->
      SubSeq(array, (k - 1) * chunkSize + 1, Min(k * chunkSize, Len(array))) ]

\* extractTitle; null and the empty string are both the empty sequence,
\* the caller tests only !title
extractTitle(response) ==
  IF ~response.html THEN <<>>
  ELSE IF response.title = <<>> THEN <<>>
  ELSE Trim(response.title)

\* urlToFilename for a URL that new URL accepts
urlToFilename(url) ==
  IF url.segments # <<>> THEN url.segments[Len(url.segments)] ELSE url.hostname

\* the characters of the first replace of sanitizeFilename
UnsafeChars == {"<", ">", ":", "\"", "/", "\\", "|", "?", "*"}

RECURSIVE ReplaceRuns(_, _, _)
\* String.replace(/[class]+/g, by)
ReplaceRuns(s, class, by) ==
  IF s = <<>> THEN <<>>
  ELSE IF s[1] \in class
       THEN IF Len(s) > 1 /\ s[2] \in class
            THEN ReplaceRuns(Tail(s), class, by)
            ELSE << by >> \o ReplaceRuns(Tail(s), class, by)
       ELSE << s[1] >> \o ReplaceRuns(Tail(s), class, by)

\* String.replace(/^_|_$/g, '')
StripUnderscoreEnds(s) ==
  LET front == IF s # <<>> /\ s[1] = "_" THEN Tail(s) ELSE s
  IN IF front # <<>> /\ front[Len(front)] = "_"
     THEN SubSeq(front, 1, Len(front) - 1)
     ELSE front

\* sanitizeFilename
sanitizeFilename(filename) ==
  LET replaced == [ i \in 1..Len(filename) |->
                      IF filename[i] \in UnsafeChars THEN "_" ELSE filename[i] ]
      spaced == ReplaceRuns(replaced, {" ", EOL, "\t"}, "_")
      collapsed == ReplaceRuns(spaced, {"_"}, "_")
      stripped == StripUnderscoreEnds(collapsed)
  IN SubSeq(stripped, 1, Min(Len(stripped), 100))

\* downloadSingleUrl: the filePath for a response that is ok, below
\* outputDir
FilePathFor(url, response) ==
  LET extracted == extractTitle(response)
      title == IF extracted = <<>> THEN urlToFilename(url) ELSE extracted
  IN sanitizeFilename(title) \o << ".txt" >>

\* whether a download has settled
Settled(d) == d.state \in {"fulfilled", "rejected"}

RECURSIVE CollectSettled_DropsRejected(_, _)
\* the forEach over batchResults mutated: a rejected result is skipped
CollectSettled_DropsRejected(res, settled) ==
  IF settled = <<>> THEN res
  ELSE CollectSettled_DropsRejected(
         IF Head(settled).state = "fulfilled"
         THEN [res EXCEPT !.successful = Append(@, [url |-> Head(settled).url,
                                                    filePath |-> Head(settled).filePath]),
                          !.downloadedCount = @ + 1]
         ELSE res,
         Tail(settled))

RECURSIVE CollectSettled(_, _)
\* the forEach over batchResults (lines 129-141)
CollectSettled(res, settled) ==
  IF settled = <<>> THEN res
  ELSE CollectSettled(
         IF Head(settled).state = "fulfilled"
         THEN [res EXCEPT !.successful = Append(@, [url |-> Head(settled).url,
                                                    filePath |-> Head(settled).filePath]),
                          !.downloadedCount = @ + 1]
         ELSE [res EXCEPT !.failed = Append(@, [url |-> Head(settled).url])],
         Tail(settled))

DownloadInit ==
  /\ Idle
  /\ workspaceDirs = << TargetDir >>
  /\ heuristic = NoHeuristic
  /\ call = NoFunctionCall

downloadFrame == << toolVars, call, executes, sessions, analyticsEnabled, searchHistory,
                   session, sessionsStarted, lastCall >>

\* downloadUrls is called: result is initialised and mkdir is awaited
DownloadUrlsCalled ==
  /\ download.pc = "none"
  /\ \E urls \in SeqsUpTo(Urls, MaxUrls) :
       download' = [NoDownload EXCEPT
                      !.pc = "mkdir",
                      !.urls = urls,
                      !.result.totalUrls = Len(urls)]
  /\ UNCHANGED downloadFrame

\* fs.mkdir settles: a rejection leaves downloadUrls, otherwise the
\* batches are made
MkdirSettles ==
  /\ download.pc = "mkdir"
  /\ \E ok \in BOOLEAN :
       download' = IF ok
                   THEN [download EXCEPT
                           !.pc = "loop",
                           !.batches = chunkArray(download.urls, maxConcurrentDownloads),
                           !.batchIndex = 0]
                   ELSE [download EXCEPT !.pc = "threw"]
  /\ UNCHANGED downloadFrame

\* the loop body up to the await: downloadSingleUrl is called for every URL
\* of the batch and runs to its fetch
BatchStarts ==
  /\ download.pc = "loop"
  /\ download.batchIndex < Len(download.batches)
  /\ LET batch == download.batches[download.batchIndex + 1]
     IN download' = [download EXCEPT
                       !.pc = "allSettled",
                       !.batchFrom = Len(download.downloads),
                       !.downloads = @ \o [ k \in 1..Len(batch) |->
                                              [url |-> batch[k],
                                               batch |-> download.batchIndex,
                                               state |-> "fetching",
                                               filePath |-> <<>>] ]]
  /\ UNCHANGED downloadFrame

\* downloadSingleUrl: fetch settles; a response that is ok gives the
\* filePath and writeFile is awaited
FetchSettles(i) ==
  /\ download.downloads[i].state = "fetching"
  /\ \E response \in Responses :
       download' = IF response.ok
                   THEN [download EXCEPT
                           !.downloads[i].state = "writing",
                           !.downloads[i].filePath =
                              FilePathFor(download.downloads[i].url, response)]
                   ELSE [download EXCEPT !.downloads[i].state = "rejected"]
  /\ UNCHANGED downloadFrame

\* downloadSingleUrl: writeFile settles; the file then holds the content
\* of this URL, whatever it held before
WriteSettles(i) ==
  /\ download.downloads[i].state = "writing"
  /\ \E ok \in BOOLEAN :
       download' = IF ok
                   THEN [download EXCEPT
                           !.downloads[i].state = "fulfilled",
                           !.files = { f \in @ : f.path # download.downloads[i].filePath }
                                     \cup { [path |-> download.downloads[i].filePath,
                                             url |-> download.downloads[i].url,
                                             from |-> i] }]
                   ELSE [download EXCEPT !.downloads[i].state = "rejected"]
  /\ UNCHANGED downloadFrame

\* Promise.allSettled resolves: the results are sorted into successful and
\* failed, and the loop waits before the next batch if there is one
BatchSettled ==
  /\ download.pc = "allSettled"
  /\ \A i \in (download.batchFrom + 1)..Len(download.downloads) :
       Settled(download.downloads[i])
  /\ download' = [download EXCEPT
                    !.result = CollectSettled(@, SubSeq(download.downloads,
                                                        download.batchFrom + 1,
                                                        Len(download.downloads))),
                    !.pc = IF download.batchIndex < Len(download.batches) - 1
                           THEN "delay" ELSE "loop",
                    !.batchIndex = IF download.batchIndex < Len(download.batches) - 1
                                   THEN @ ELSE @ + 1]
  /\ UNCHANGED downloadFrame

\* the delay between two batches has passed
DelayElapses ==
  /\ download.pc = "delay"
  /\ download' = [download EXCEPT !.pc = "loop", !.batchIndex = @ + 1]
  /\ UNCHANGED downloadFrame

\* the loop has ended: downloadUrls returns result
DownloadUrlsReturns ==
  /\ download.pc = "loop"
  /\ download.batchIndex >= Len(download.batches)
  /\ download' = [download EXCEPT !.pc = "returned"]
  /\ UNCHANGED downloadFrame

DownloadNext ==
  \/ DownloadUrlsCalled
  \/ MkdirSettles
  \/ BatchStarts
  \/ \E i \in 1..MaxUrls : i <= Len(download.downloads) /\ FetchSettles(i)
  \/ \E i \in 1..MaxUrls : i <= Len(download.downloads) /\ WriteSettles(i)
  \/ BatchSettled
  \/ DelayElapses
  \/ DownloadUrlsReturns

SpecDownload == DownloadInit /\ [][DownloadNext]_vars

\* ------------------------------------------------------------------------
\* GrepTool.execute with its analytics session: performGrepSearch is taken
\* as one step with the outcomes the selector can have; next to the run with
\* the session of startSearch, reference holds the run of the same code on
\* the same inputs with a null session
\* ------------------------------------------------------------------------

\* what performGrepSearch can do for one directory: return the parsed output
\* of a child, return the matches of the in-process traversal, or throw
SelectorOutcomes(p) ==
  { [state |-> "returned", matches |-> parseGrepOutput(o)] : o \in StdoutTexts }
  \cup { [state |-> "returned",
          matches |-> (IF GlobMatches(IF p.include = NoValue THEN "**/*" ELSE p.include,
                                      FileA)
                       THEN FileMatches(FileA, p.pattern) ELSE <<>>)
                      \o FileMatches(FileB, p.pattern)],
         [state |-> "threw", matches |-> <<>>] }

\* createMatchAnalytics; the file size, the modification time and the
\* context lines come from the file system and are left out
createMatchAnalytics(match, pattern) ==
  [filePath |-> match.filePath,
   lineNumber |-> match.lineNumber,
   matchText |-> match.line,
   relevanceScore |-> calculateRelevanceScore(match, << pattern >>),
   matchReason |-> getMatchReason(match, << pattern >>)]

RECURSIVE AddMatches(_, _, _)
\* for (const match of matches) session.addMatch(await createMatchAnalytics(...))
AddMatches(s, matches, pattern) ==
  IF matches = <<>> THEN s
  ELSE AddMatches(addMatch(s, createMatchAnalytics(Head(matches), pattern)),
                  Tail(matches), pattern)

\* addSearchRankingFactors; scope and density are kept as the numbers they
\* are computed from
addSearchRankingFactors(s, p, matches, filesScanned) ==
  IF ~isActive(s) THEN s
  ELSE LET s1 == addRankingFactor(s,
                   [factor |-> "Pattern Complexity",
                    value |-> << calculatePatternComplexity(<< p.pattern >>) >>])
           s2 == addRankingFactor(s1,
                   [factor |-> "Search Scope", value |-> << filesScanned >>])
           s3 == addRankingFactor(s2,
                   [factor |-> "Result Density",
                    value |-> << Len(matches), filesScanned >>])
       IN IF p.include # NoValue
          THEN addRankingFactor(s3, [factor |-> "File Filter", value |-> << 100 >>])
          ELSE s3

\* the reversal of a sequence
Reverse(seq) == [ i \in 1..Len(seq) |-> seq[Len(seq) + 1 - i] ]

\* performGrepSearchWithAnalytics mutated: with an active session the
\* matches are returned in the opposite order
performGrepSearchWithAnalytics_Reorders(matches, s, p, filesScanned) ==
  IF isActive(s)
  THEN [matches |-> Reverse(matches),
        session |-> addSearchRankingFactors(
                      AddMatches(setFilesScanned(s, filesScanned), matches, p.pattern),
                      p, matches, filesScanned)]
  ELSE [matches |-> matches, session |-> s]

\* performGrepSearchWithAnalytics after performGrepSearch returned matches:
\* the matches it returns and the session afterwards
performGrepSearchWithAnalytics(matches, s, p, filesScanned) ==
  IF isActive(s)
  THEN [matches |-> matches,
        session |-> addSearchRankingFactors(
                      AddMatches(setFilesScanned(s, filesScanned), matches, p.pattern),
                      p, matches, filesScanned)]
  ELSE [matches |-> matches, session |-> s]

analyticsFrame == << workspaceDirs, selectorVars, effectVars, searched, foundIn,
                    heuristic, call, executes, sessions, download >>

\* the return of execute mutated: the session is not completed
CompleteAndReturn_NoComplete(res, refRes) ==
  /\ UNCHANGED << session, searchHistory, lastCall >>
  /\ result' = res
  /\ reference' = [reference EXCEPT !.result = refRes]
  /\ pc' = "done"

\* session.complete() and the return of execute with the given result
CompleteAndReturn(res, refRes) ==
  /\ LET c == complete(session, searchHistory)
     IN /\ session' = c.session
        /\ searchHistory' = c.history
        /\ lastCall' = [method |-> "complete", returned |-> c.returned]
  /\ result' = res
  /\ reference' = [reference EXCEPT !.result = refRes]
  /\ pc' = "done"

\* execute, lines 173-183: startSearch and setPattern
AnalyticsExecuteStart ==
  /\ pc = "idle"
  /\ sessionsStarted < MaxSessions
  /\ sessionsStarted' = sessionsStarted + 1
  /\ \E p \in Patterns, d \in PathArgs, inc \in Includes :
       /\ params' = [pattern |-> p, path |-> d, include |-> inc]
       /\ session' = setPattern(startSearch(analyticsEnabled, sessionsStarted + 1, "grep"),
                                p)
  /\ lastCall' = [method |-> "setPattern", returned |-> "undefined"]
  /\ pc' = "validate"
  /\ searchDirectories' = <<>>
  /\ rootIdx' = 0
  /\ allMatches' = <<>>
  /\ result' = NoResult
  /\ reference' = [allMatches |-> <<>>, result |-> NoResult]
  /\ UNCHANGED << analyticsFrame, analyticsEnabled, searchHistory >>

\* execute, lines 185-192: a validation error completes the session
AnalyticsValidate ==
  /\ pc = "validate"
  /\ LET v == validateToolParams(params)
     IN IF v.error # NoValue
        THEN CompleteAndReturn(ValidationErrorResult(v.error),
                               ValidationErrorResult(v.error))
        ELSE /\ pc' = "resolve"
             /\ UNCHANGED << result, reference, session, searchHistory, lastCall >>
  /\ UNCHANGED << analyticsFrame, params, searchDirectories, rootIdx, allMatches,
                  analyticsEnabled, sessionsStarted >>

\* execute, lines 195-207, with the catch of lines 285-293
AnalyticsResolveScope ==
  /\ pc = "resolve"
  /\ LET r == resolveAndValidatePath(params.path)
     IN IF r.threw
        THEN /\ CompleteAndReturn(ExecuteCatch(r.value), ExecuteCatch(r.value))
             /\ UNCHANGED << searchDirectories, rootIdx >>
        ELSE /\ searchDirectories' = SearchDirectoriesFor(r.value, workspaceDirs)
             /\ rootIdx' = 1
             /\ pc' = "loop"
             /\ UNCHANGED << result, reference, session, searchHistory, lastCall >>
  /\ UNCHANGED << analyticsFrame, params, allMatches, analyticsEnabled,
                  sessionsStarted >>

\* execute, lines 211-229: one turn of the loop, or the catch of lines
\* 285-293 when the selector throws; filesScanned is what the counting
\* traversal reached
AnalyticsSearchRoot ==
  /\ pc = "loop"
  /\ rootIdx <= Len(searchDirectories)
  /\ \E o \in SelectorOutcomes(params), filesScanned \in 0..Cardinality(TreeFiles) :
       IF o.state = "threw"
       THEN /\ CompleteAndReturn(ExecuteCatch("search failed"),
                                 ExecuteCatch("search failed"))
            /\ UNCHANGED << rootIdx, allMatches >>
       ELSE LET run == performGrepSearchWithAnalytics(o.matches, session, params,
                                                      filesScanned)
                ref == performGrepSearchWithAnalytics(o.matches, NoSession, params,
                                                      filesScanned)
            IN /\ allMatches' = allMatches \o
                    PrefixMatches(run.matches, Len(searchDirectories),
                                  searchDirectories[rootIdx])
               /\ reference' = [reference EXCEPT !.allMatches = @ \o
                    PrefixMatches(ref.matches, Len(searchDirectories),
                                  searchDirectories[rootIdx])]
               /\ session' = run.session
               /\ lastCall' = [method |-> "isActive",
                               returned |-> IF isActive(session) THEN "true"
                                            ELSE "false"]
               /\ rootIdx' = rootIdx + 1
               /\ UNCHANGED << pc, result, searchHistory >>
  /\ UNCHANGED << analyticsFrame, params, searchDirectories, analyticsEnabled,
                  sessionsStarted >>

\* execute, lines 231-284: the result is rendered and the session completed
AnalyticsRender ==
  /\ pc = "loop"
  /\ rootIdx > Len(searchDirectories)
  /\ CompleteAndReturn(RenderResult(allMatches), RenderResult(reference.allMatches))
  /\ UNCHANGED << analyticsFrame, params, searchDirectories, rootIdx, allMatches,
                  analyticsEnabled, sessionsStarted >>

\* execute has returned
AnalyticsReturn ==
  /\ pc = "done"
  /\ pc' = "idle"
  /\ UNCHANGED << analyticsFrame, params, searchDirectories, rootIdx, allMatches,
                  result, analyticsEnabled, searchHistory, session,
                  sessionsStarted, lastCall, reference >>

AnalyticsNext ==
  \/ EnableAnalytics
  \/ AnalyticsExecuteStart
  \/ AnalyticsValidate
  \/ AnalyticsResolveScope
  \/ AnalyticsSearchRoot
  \/ AnalyticsRender
  \/ AnalyticsReturn

SpecAnalytics == Init /\ [][AnalyticsNext]_vars

\* ------------------------------------------------------------------------
\* Several GrepTool.execute calls running at the same time in one process:
\* a call gives up control at its awaits, so the steps of the calls
\* interleave between performGrepSearch, the creation of each MatchAnalytics
\* and the end of a root; every call has valid parameters and no path
\* ------------------------------------------------------------------------

\* the parameters of the concurrent calls
ConcurrentParams ==
  { [pattern |-> "a", path |-> NoValue, include |-> NoValue],
    [pattern |-> "q", path |-> NoValue, include |-> "*.md"] }

\* what performGrepSearch does for one root of a concurrent call, with the
\* number of files the counting traversal then finds: it throws, or returns
\* no match, or returns the two matches of the last output text
ConcurrentOutcomes ==
  { [state |-> "threw", matches |-> <<>>, filesScanned |-> 0],
    [state |-> "returned", matches |-> <<>>, filesScanned |-> 1],
    [state |-> "returned", filesScanned |-> 2,
     matches |-> parseGrepOutput(<<"a", ".", "t", "x", "t", ":", "2", ":", "A", "b", "\n",
                                   "a", ".", "t", "x", "t", ":", "1", ":", "x", "\n">>)] }

\* the concurrent calls search a workspace of one root
ConcurrentInit ==
  /\ Idle
  /\ workspaceDirs = << TargetDir >>
  /\ heuristic = NoHeuristic
  /\ call = NoFunctionCall

\* execute mutated: the session is kept where every call finds the one that
\* was started last (n sessions were started so far)
SessionHeld_StartedLast(ex, t, n) == n

\* const session = testBenchAnalytics.startSearch(...): the session of task
\* t's call is the one that call was given
SessionHeld(ex, t, n) == ex[t].session

concurrentFrame == << toolVars, call, download, session, lastCall >>

\* execute, lines 173-207: startSearch, setPattern, the scope
ExecuteCalled(t) ==
  /\ executes[t].pc = "idle"
  /\ sessionsStarted < MaxTasks
  /\ sessionsStarted' = sessionsStarted + 1
  /\ \E p \in ConcurrentParams :
       LET id == sessionsStarted + 1
           s0 == setPattern(startSearch(analyticsEnabled, id, "grep"), p.pattern)
       IN /\ sessions' = Append(sessions, s0)
          /\ executes' = [executes EXCEPT ![t] =
               [pc |-> "loop", params |-> p, session |-> id,
                rootsLeft |-> Len(SearchDirectoriesFor(NoValue, workspaceDirs)),
                matches |-> <<>>, pending |-> <<>>, filesScanned |-> 0,
                alone |-> s0]]
  /\ UNCHANGED << concurrentFrame, analyticsEnabled, searchHistory >>

\* performGrepSearch settles for the next root (lines 628-657): it throws
\* and the catch of execute completes the session, or it returns and, with
\* an active session, the files are counted and setFilesScanned is called
SelectorSettles(t) ==
  /\ executes[t].pc = "loop"
  /\ executes[t].rootsLeft > 0
  /\ LET h == SessionHeld(executes, t, Len(sessions))
     IN \E o \in ConcurrentOutcomes :
          LET n == o.filesScanned IN
          IF o.state = "threw"
          THEN LET c == complete(sessions[h], searchHistory)
               IN /\ sessions' = [sessions EXCEPT ![h] = c.session]
                  /\ searchHistory' = c.history
                  /\ executes' = [executes EXCEPT
                       ![t].pc = "done",
                       ![t].alone = complete(@, <<>>).session]
          ELSE /\ searchHistory' = searchHistory
               /\ IF isActive(sessions[h])
                  THEN /\ sessions' = [sessions EXCEPT ![h] = setFilesScanned(@, n)]
                       /\ executes' = [executes EXCEPT
                            ![t].pc = "addMatch",
                            ![t].matches = o.matches,
                            ![t].pending = o.matches,
                            ![t].filesScanned = n,
                            ![t].alone =
                               performGrepSearchWithAnalytics(
                                 o.matches, @, executes[t].params, n).session]
                  ELSE /\ sessions' = sessions
                       /\ executes' = [executes EXCEPT ![t].rootsLeft = @ - 1]
  /\ UNCHANGED << concurrentFrame, analyticsEnabled, sessionsStarted >>

\* lines 660-668: createMatchAnalytics settles for the next match and
\* addMatch is called
AddsMatch(t) ==
  /\ executes[t].pc = "addMatch"
  /\ executes[t].pending # <<>>
  /\ LET h == SessionHeld(executes, t, Len(sessions))
     IN sessions' = [sessions EXCEPT ![h] =
          addMatch(@, createMatchAnalytics(Head(executes[t].pending),
                                           executes[t].params.pattern))]
  /\ executes' = [executes EXCEPT ![t].pending = Tail(@)]
  /\ UNCHANGED << concurrentFrame, analyticsEnabled, searchHistory, sessionsStarted >>

\* line 671 and the end of the loop body (lines 220-228)
AddsRankingFactors(t) ==
  /\ executes[t].pc = "addMatch"
  /\ executes[t].pending = <<>>
  /\ LET h == SessionHeld(executes, t, Len(sessions))
     IN sessions' = [sessions EXCEPT ![h] =
          addSearchRankingFactors(@, executes[t].params, executes[t].matches,
                                  executes[t].filesScanned)]
  /\ executes' = [executes EXCEPT ![t].pc = "loop", ![t].rootsLeft = @ - 1]
  /\ UNCHANGED << concurrentFrame, analyticsEnabled, searchHistory, sessionsStarted >>

\* every root was searched: session.complete() (line 243 or 279) and the
\* return of the call
ExecuteCompletes(t) ==
  /\ executes[t].pc = "loop"
  /\ executes[t].rootsLeft = 0
  /\ LET h == SessionHeld(executes, t, Len(sessions))
         c == complete(sessions[h], searchHistory)
     IN /\ sessions' = [sessions EXCEPT ![h] = c.session]
        /\ searchHistory' = c.history
  /\ executes' = [executes EXCEPT ![t].pc = "done",
                                  ![t].alone = complete(@, <<>>).session]
  /\ UNCHANGED << concurrentFrame, analyticsEnabled, sessionsStarted >>

ConcurrentNext ==
  \/ EnableAnalytics
  \/ \E t \in Tasks : ExecuteCalled(t)
  \/ \E t \in Tasks : SelectorSettles(t)
  \/ \E t \in Tasks : AddsMatch(t)
  \/ \E t \in Tasks : AddsRankingFactors(t)
  \/ \E t \in Tasks : ExecuteCompletes(t)

SpecConcurrent == ConcurrentInit /\ [][ConcurrentNext]_vars

\* ------------------------------------------------------------------------
\* Properties of the strategy selector
\* ------------------------------------------------------------------------

StrategyNames == {"git grep", "system grep", "javascript fallback"}

\* what a grep-like child that ended with a resolved promise hands on
ChildMatches(child) ==
  IF child.code = 0 THEN parseGrepOutput(child.stdout) ELSE <<>>

\* C1: the strategies are started in the order git grep, system grep,
\* in-process fallback; a strategy is started only when every earlier one
\* was unavailable or failed; once a strategy has succeeded no later one is
\* started and performGrepSearch returns that strategy's result.
C1_FixedOrderShortCircuit ==
  /\ \A i \in 1..Len(started) : \A j \in 1..Len(started) :
       i < j => StrategyRank(started[i]) < StrategyRank(started[j])
  /\ \A i \in 1..Len(started) : \A e \in StrategyNames :
       StrategyRank(e) < StrategyRank(started[i])
         => outcome[e] \in {"unavailable", "failed"}
  /\ \A n \in StrategyNames :
       outcome[n] = "succeeded" =>
         /\ started # <<>>
         /\ started[Len(started)] = n
         /\ pc = "pgsReturn"
         /\ pgsResult.state = "returned"
         /\ pgsResult.matches =
              CASE n = "git grep" -> ChildMatches(gitChild)
                [] n = "system grep" -> ChildMatches(grepChild)
                [] OTHER -> jsMatches

\* C1 witness: git grep failed, system grep then succeeded with zero matches
\* and its empty result is returned without starting the fallback
C1_Witness ==
  /\ pc = "pgsReturn"
  /\ started = <<"git grep", "system grep">>
  /\ outcome["git grep"] = "failed"
  /\ outcome["system grep"] = "succeeded"
  /\ grepChild.code = 1
  /\ pgsResult.matches = <<>>

\* C2: a git grep or system grep that is unavailable or fails only moves the
\* selector on to the next strategy; performGrepSearch throws only when the
\* in-process fallback threw.
C2_OnlyFallbackThrows ==
  /\ outcome["git grep"] = "failed" => "grep" \in probed
  /\ outcome["system grep"] \in {"unavailable", "failed"} =>
       /\ pc \in {"js", "jsIter", "pgsReturn", "pgsThrow"}
       /\ pc # "js" => started[Len(started)] = "javascript fallback"
  /\ pc = "pgsThrow" => outcome["javascript fallback"] = "threw"
  /\ pgsResult.state = "threw" => pc \in {"pgsThrow", "done", "idle"}

\* C2 witness: git grep exited with a failing code, system grep could not be
\* started, and the fallback returned normally
C2_Witness ==
  /\ pc = "pgsReturn"
  /\ started = <<"git grep", "system grep", "javascript fallback">>
  /\ outcome["git grep"] = "failed"
  /\ outcome["system grep"] = "failed"
  /\ outcome["javascript fallback"] = "succeeded"
  /\ pgsResult.state = "returned"

\* C3: git grep is spawned only in a repository with git available; when the
\* directory is not a repository git is neither probed nor spawned.
C3_GitOnlyInRepository ==
  /\ \A i \in 1..Len(started) :
       started[i] = "git grep" =>
         /\ isGit
         /\ "git" \in probed
         /\ outcome["git grep"] # "unavailable"
  /\ (pc \notin {"idle", "validate", "resolve", "loop", "done"} /\ ~isGit) =>
       /\ "git" \notin probed
       /\ \A i \in 1..Len(started) : started[i] # "git grep"
       /\ gitChild = NoChild

\* C3 witness: outside a repository the selector went straight to system grep
C3_Witness ==
  /\ pc = "grepRun"
  /\ ~isGit
  /\ probed = {"grep"}
  /\ started = <<"system grep">>

\* C4: git grep exit code 0 makes the parsed stdout the result; exit code 1
\* makes the empty list the result and no later strategy runs; any other exit
\* code or a spawn error makes the selector go on to system grep with no error
\* raised.
C4_GitExitCodes ==
  /\ (gitChild.state = "closed" /\ gitChild.code = 0) =>
       /\ pc = "pgsReturn"
       /\ pgsResult = [state |-> "returned",
                       matches |-> parseGrepOutput(gitChild.stdout)]
       /\ started = <<"git grep">>
  /\ (gitChild.state = "closed" /\ gitChild.code = 1) =>
       /\ pc = "pgsReturn"
       /\ pgsResult = [state |-> "returned", matches |-> <<>>]
       /\ started = <<"git grep">>
  /\ (gitChild.state = "error" \/
      (gitChild.state = "closed" /\ gitChild.code \notin {0, 1})) =>
       /\ pc = "grepProbe"
       /\ "grep" \in probed
       /\ pgsResult.state = "pending"
       /\ result.kind = "none"

\* C4 witness: git grep exited with code 1 after writing to stdout and the
\* empty list is returned
C4_Witness ==
  /\ pc = "pgsReturn"
  /\ gitChild.state = "closed"
  /\ gitChild.code = 1
  /\ gitChild.stdout # <<>>
  /\ pgsResult.matches = <<>>

\* C5: when system grep exits with a code other than 0 or 1 and its stderr
\* had a diagnostic line that is not benign, the strategy has failed and the
\* fallback runs, however the stderr text was cut into chunks.
C5_NonBenignStderrFails ==
  (grepChild.state = "closed" /\ grepChild.code \notin {0, 1}
     /\ HasNonBenignLine(stderrText)) =>
       /\ outcome["system grep"] = "failed"
       /\ pc = "js"

\* C6: stderr text made of benign diagnostic lines only is never retained and
\* never makes system grep count as failed, whatever the exit code.
C6_BenignStderrSuppressed ==
  OnlyBenignLines(stderrText) =>
    /\ Trim(Concat(stderrChunks)) = <<>>
    /\ grepChild.state = "closed" => outcome["system grep"] = "succeeded"

\* ------------------------------------------------------------------------
\* Properties of execute
\* ------------------------------------------------------------------------

\* the parameters are rejected by one of the validation rules: schema, regular
\* expression, workspace boundary, existence, directory
ParamsInvalid(p) ==
  \/ p.pattern = NoValue
  \/ ~RegExpValid(p.pattern)
  \/ /\ p.path # NoValue
     /\ \/ ~isPathWithinWorkspace(ResolvePath(p.path))
        \/ StatSync(ResolvePath(p.path)) # "dir"

\* an execute has been called and has passed its validation step
PastValidation == pc # "validate" /\ ~(pc = "idle" /\ result.kind = "none")

\* C7: when validation fails execute returns a validation error and nothing
\* of the search has been started: no probe, no child process, no traversal.
C7_ValidationErrorStartsNothing ==
  (PastValidation /\ ParamsInvalid(params)) =>
    /\ pc \in {"done", "idle"}
    /\ result.kind = "validation_error"
    /\ probed = {}
    /\ started = <<>>
    /\ childProcs = 0
    /\ traversals = 0

\* C7 witness: a path that is a regular file was rejected after one stat
C7_Witness ==
  /\ pc = "done"
  /\ params.pattern = "a"
  /\ params.path = "README.md"
  /\ result.kind = "validation_error"
  /\ statCalls = 1

\* C8: for a pattern that is not a regular expression the validation error
\* is returned with no filesystem access and no child process, whatever the
\* path and include are.
C8_InvalidRegexBeforeAnyAccess ==
  (params.pattern # NoValue /\ ~RegExpValid(params.pattern)) =>
    /\ statCalls = 0
    /\ childProcs = 0
    /\ traversals = 0
    /\ pc # "validate" => (pc \in {"done", "idle"} /\ result.kind = "validation_error")

\* C8 witness: an invalid pattern together with an existing directory path
C8_Witness ==
  /\ pc = "done"
  /\ params.pattern = "("
  /\ params.path = "docs"
  /\ params.include = "*.md"
  /\ result.kind = "validation_error"

\* C9: an exception thrown while the strategies run, for whichever root, ends
\* in the error ToolResult of execute; execute never lets it escape.
C9_ExceptionBecomesErrorResult ==
  /\ result.kind # "exception"
  /\ (pgsResult.state = "threw" /\ pc # "pgsThrow") =>
       /\ pc \in {"done", "idle"}
       /\ result.kind = "error"
       /\ result.llmContent = "Error during grep search operation: search failed"

\* C9 witness: the fallback threw while the second root was searched
C9_Witness ==
  /\ pc = "done"
  /\ pgsResult.state = "threw"
  /\ rootIdx = 2
  /\ Len(searchDirectories) = 2
  /\ result.kind = "error"

\* execute went through every directory to search without an exception
SearchedAllRoots ==
  /\ pc \in {"done", "idle"}
  /\ searchDirectories # <<>>
  /\ rootIdx > Len(searchDirectories)

\* C10: with valid parameters and zero matches over all searched roots the
\* result is the 'No matches found' summary, not an error.
C10_ZeroMatchesIsNotAnError ==
  (SearchedAllRoots /\ allMatches = <<>>) =>
    /\ ~ParamsInvalid(params)
    /\ result.kind = "no_matches"
    /\ result.llmContent = "No matches found"

\* C10 witness: two roots were searched and neither produced a match
C10_Witness ==
  /\ pc = "done"
  /\ Len(searchDirectories) = 2
  /\ rootIdx = 3
  /\ allMatches = <<>>
  /\ result.kind = "no_matches"

\* the line numbers of a sequence of rendered entries never go down
NonDecreasing(lines) ==
  \A i \in 1..Len(lines), j \in 1..Len(lines) :
    i < j => lines[i].lineNumber <= lines[j].lineNumber

\* C11: in a rendered result, within each file block the entries are in
\* non-decreasing line-number order, whatever order the matches came in.
C11_BlocksAscendByLine ==
  \A b \in 1..Len(result.blocks) :
    /\ NonDecreasing(result.blocks[b].lines)
    /\ \A c \in 1..Len(result.blocks) : result.blocks[c].file = result.blocks[b].file => c = b

\* C11 witness: a strategy reported line 2 of a file before line 1 of it and
\* the rendered block lists line 1 first
C11_Witness ==
  /\ pc = "done"
  /\ result.kind = "found"
  /\ \E i \in 1..Len(allMatches), j \in 1..Len(allMatches) :
       /\ i < j
       /\ allMatches[i].filePath = allMatches[j].filePath
       /\ allMatches[i].lineNumber > allMatches[j].lineNumber
  /\ \E b \in 1..Len(result.blocks) :
       /\ Len(result.blocks[b].lines) = 2
       /\ result.blocks[b].lines[1].lineNumber = 1
       /\ result.blocks[b].lines[2].lineNumber = 2

\* the directories execute has to search for its parameters
ExpectedRoots ==
  IF params.path = NoValue THEN workspaceDirs ELSE << ResolvePath(params.path) >>

C12_WitnessAllRoots ==
  /\ pc = "done"
  /\ params.path = NoValue
  /\ searched = << <<"w1", "app">>, <<"w2", "lib">> >>
  /\ result.kind = "found"

\* C13: when more than one directory is searched every match's file path is
\* the base name of its directory joined with its path there; when one
\* directory is searched the path is left as it is.
C13_PrefixOnlyForSeveralRoots ==
  /\ Len(foundIn) = Len(allMatches)
  /\ \A i \in 1..Len(allMatches) :
       allMatches[i].filePath =
         IF Len(searchDirectories) > 1
         THEN << Basename(foundIn[i].dir), "/" >> \o foundIn[i].filePath
         ELSE foundIn[i].filePath

\* C13 witness: a match found in the second of two directories carries that
\* directory's base name
C13_Witness ==
  /\ Len(searchDirectories) = 2
  /\ \E i \in 1..Len(allMatches) :
       /\ foundIn[i].dir = <<"w2", "lib">>
       /\ allMatches[i].filePath = <<"lib", "/">> \o foundIn[i].filePath
       /\ foundIn[i].filePath \in {FileA, FileB}

\* C13 witness: a match of a search of one directory has no prefix
C13_WitnessOneRoot ==
  /\ Len(searchDirectories) = 1
  /\ \E i \in 1..Len(allMatches) : allMatches[i].filePath \in {FileA, FileB}

\* ------------------------------------------------------------------------
\* Properties of TestBenchAnalytics and SearchSession
\* ------------------------------------------------------------------------

\* a step that calls one of the void methods of the held session
MutatorCall ==
  \/ AddMatch
  \/ SetFilesScanned
  \/ SetPattern
  \/ AddRankingFactor
  \/ SetToolDecisionReason
  \/ SetSearchParameters

\* s is a prefix of t
IsPrefix(s, t) == Len(s) <= Len(t) /\ SubSeq(t, 1, Len(s)) = s

\* C14: a complete() on a session that complete() was already called on is a
\* no-op: it appends nothing to the history (the callback is not invoked
\* again).
C14_FinalizedExactlyOnce ==
  [][(Complete /\ session.completed) => searchHistory' = searchHistory]_vars

\* C15: a session started while analytics is disabled holds no record,
\* isActive() on it is false, complete() on it returns null, and no call of
\* a method on it changes the search history or the session.
C15_DisabledSessionInert ==
  /\ [](~session.enabledAtStart =>
          /\ session.analytics = NullAnalytics
          /\ lastCall.method = "isActive" => lastCall.returned = "false"
          /\ lastCall.method = "complete" => lastCall.returned = "null")
  /\ [][(~session.enabledAtStart /\ (MutatorCall \/ Complete \/ IsActive)) =>
          /\ searchHistory' = searchHistory
          /\ session'.analytics = session.analytics]_vars

\* C15 witness: a search was started while analytics was disabled, complete()
\* was called on its session and returned null, and the history is empty
C15_Witness ==
  /\ session.id = 1
  /\ ~session.enabledAtStart
  /\ session.completed
  /\ lastCall = [method |-> "complete", returned |-> "null"]
  /\ searchHistory = <<>>

\* C16: after complete() no void method of the session changes the record
\* and isActive() reports the session as not active.
C16_FinalizedSessionInert ==
  /\ [][(session.completed /\ MutatorCall) =>
          session'.analytics = session.analytics]_vars
  /\ []((session.completed /\ lastCall.method = "isActive") =>
          lastCall.returned = "false")

\* C18 as stated: the history only grows at its end, under every operation.
C18_AppendOnly ==
  [][IsPrefix(searchHistory, searchHistory')]_vars

\* C18: the history only grows at its end, except that /testbench clear
\* empties it.
C18_AppendOnlyExceptClear ==
  [][IsPrefix(searchHistory, searchHistory') \/ (HandleClear /\ searchHistory' = <<>>)]_vars

\* C18 witness: complete() appended the record of the first search and
\* /testbench clear has emptied the history since
C18_Witness ==
  /\ session.id = 1
  /\ isActive(session)
  /\ session.completed
  /\ lastCall.method = "complete"
  /\ searchHistory = <<>>

\* ------------------------------------------------------------------------
\* Properties of the ranking heuristics
\* ------------------------------------------------------------------------

\* C19: calculateRelevanceScore returns a value in [0,1] (0..10 tenths) and
\* getMatchReason returns a non-empty string, for every match and pattern.
C19_ScoreInUnitIntervalReasonNonEmpty ==
  /\ "calculateRelevanceScore" \in heuristic.called =>
       (heuristic.score >= 0 /\ heuristic.score <= 10)
  /\ "getMatchReason" \in heuristic.called =>
       (heuristic.reason # <<>> /\ \A i \in 1..Len(heuristic.reason) : heuristic.reason[i] # "")

\* C19 witness: every increment applies, so the sum 1.1 is cut to 1, and all
\* four reasons are joined
C19_Witness ==
  /\ heuristic.called = {"calculateRelevanceScore", "getMatchReason"}
  /\ RelevanceSum(heuristic.match, heuristic.pattern) = 11
  /\ heuristic.score = 10
  /\ Len(heuristic.reason) > 6

\* C19 witness: no reason applies and the default reason is returned; the
\* pattern does not occur in the long line, so its index -1 is below 10
C19_WitnessDefaultReason ==
  /\ heuristic.called = {"calculateRelevanceScore", "getMatchReason"}
  /\ heuristic.reason = <<"pattern match">>
  /\ heuristic.score = 6

\* the pattern has a lower-case letter and an upper-case letter
MixesLetterCase(pattern) ==
  /\ \E i \in 1..Len(pattern) : UpperChar(pattern[i]) # pattern[i]
  /\ \E i \in 1..Len(pattern) : LowerChar(pattern[i]) # pattern[i]

\* the pattern contains a backslash followed by one of the letters
HasEscape(pattern, letters) ==
  \E i \in 1..(Len(pattern) - 1) : pattern[i] = "\\" /\ pattern[i + 1] \in letters

\* min(1, min(0.1 x metacharacters, 0.5) + min(0.01 x length, 0.3)
\*        + 0.1 if case is mixed + 0.2 if one of the escapes occurs)
ComplexityFormula(pattern, letters) ==
  Min(100,
      Min(10 * Cardinality({ i \in 1..Len(pattern) : pattern[i] \in RegexChars }), 50)
      + Min(Len(pattern), 30)
      + (IF MixesLetterCase(pattern) THEN 10 ELSE 0)
      + (IF HasEscape(pattern, letters) THEN 20 ELSE 0))

\* C20 as stated: the 0.2 is added for the word, whitespace and digit
\* shorthand escapes \w, \s, \d.
C20_ComplexityFormulaWithWhitespace ==
  "calculatePatternComplexity" \in heuristic.called =>
    heuristic.complexity = ComplexityFormula(heuristic.pattern, {"w", "s", "d"})

\* C20: calculatePatternComplexity equals the formula with the 0.2 added
\* when the pattern contains \b, \w or \d.
C20_ComplexityFormula ==
  "calculatePatternComplexity" \in heuristic.called =>
    heuristic.complexity = ComplexityFormula(heuristic.pattern, {"b", "w", "d"})

\* C20 witness: a pattern with \d, mixed case, more than 5 metacharacters
\* and more than 30 characters: every part is at its cap and the sum 1.1 is
\* cut to 1
C20_Witness ==
  /\ "calculatePatternComplexity" \in heuristic.called
  /\ HasEscape(heuristic.pattern, {"d"})
  /\ MixesLetterCase(heuristic.pattern)
  /\ Len(heuristic.pattern) > 30
  /\ heuristic.complexity = 100

\* ------------------------------------------------------------------------
\* Properties of execute with its analytics session
\* ------------------------------------------------------------------------

C21_ColonsTolerated ==
  call.fn = "parseGrepOutput" =>
    /\ Len(call.returned) = Len(call.entries)
    /\ \A i \in 1..Len(call.entries) :
         /\ call.returned[i].filePath = call.entries[i].path
         /\ call.returned[i].lineNumber = ParseInt(call.entries[i].number)
         /\ call.returned[i].line = call.entries[i].content

\* an entry whose path has no colon
ColonFree(e) == \A i \in 1..Len(e.path) : e.path[i] # ":"

\* C33: a non-blank line with fewer than two colons gives no record; for
\* lines p:n:c with p free of colons and n a decimal integer the records are,
\* in the order of the lines, p as the path relative to the root, n as the
\* line number and all of c, further colons included, as the content.
C33_ParsesWellFormedLinesInOrder ==
  (call.fn = "parseGrepOutput" /\ \A i \in 1..Len(call.entries) : ColonFree(call.entries[i])) =>
    /\ Len(call.returned) = Len(call.entries)
    /\ \A i \in 1..Len(call.entries) :
         /\ call.returned[i].filePath = call.entries[i].path
         /\ call.returned[i].lineNumber = ParseInt(call.entries[i].number)
         /\ call.returned[i].line = call.entries[i].content

\* C33 witness: two different match lines with a one-colon line between
\* them, the second with a colon in its content, gave two records
C33_Witness ==
  /\ call.fn = "parseGrepOutput"
  /\ Len(call.entries) = 2
  /\ call.other = [present |-> TRUE, line |-> <<"a", ":", "1">>]
  /\ call.otherAt = 1
  /\ ColonFree(call.entries[1]) /\ ColonFree(call.entries[2])
  /\ call.entries[1].path # call.entries[2].path
  /\ call.entries[2].content = <<"k", ":", "v">>
  /\ Len(call.returned) = 2
  /\ call.returned[2].line = <<"k", ":", "v">>

\* ------------------------------------------------------------------------
\* Properties of the in-process fallback inside the selector
\* ------------------------------------------------------------------------

\* the elements of a sequence
Range(seq) == { seq[i] : i \in 1..Len(seq) }

\* the match set of the fallback run on a directory whose files of the set
\* readable can be read: every line matching the pattern in every readable
\* file that passes the include filter
DirectFallbackMatches(p, readable) ==
  UNION { Range(FileMatches(f, p.pattern)) :
            f \in { g \in readable :
                      GlobMatches(IF p.include = NoValue THEN "**/*" ELSE p.include, g) } }

\* git grep and system grep were both not available in this call
BothUnavailable ==
  /\ outcome["git grep"] = "unavailable"
  /\ outcome["system grep"] = "unavailable"

\* C23: when git grep and system grep are both unavailable the selector
\* returns exactly the match set of the fallback on the same directory,
\* pattern and include filter, each match once.
C23_FallbackEquivalence ==
  (pc = "pgsReturn" /\ BothUnavailable) =>
    /\ pgsResult.state = "returned"
    /\ strategyUsed = "javascript fallback"
    /\ filesRead \subseteq TreeFiles
    /\ Range(pgsResult.matches) = DirectFallbackMatches(params, filesRead)
    /\ Len(pgsResult.matches) = Cardinality(Range(pgsResult.matches))

\* C23 witness: both commands were unavailable, an include filter was given,
\* the files were read and the selector returns the matches of the fallback
C23_Witness ==
  /\ pc = "pgsReturn"
  /\ BothUnavailable
  /\ params.include # NoValue
  /\ filesRead # {}
  /\ pgsResult.matches # <<>>
  /\ childProcs = 2

\* how often url occurs as the url of an element of entries
UrlCount(entries, url) ==
  Cardinality({ i \in 1..Len(entries) : entries[i].url = url })

\* C38: when downloadUrls returns, every input URL is in exactly one of
\* successful and failed, as often as it was given, totalUrls is the number
\* of input URLs, downloadedCount is the length of successful, and
\* downloadSingleUrl was called for every URL in input order; only the
\* rejection of mkdir makes downloadUrls throw, never a failed download.
C38_EveryUrlClassifiedOnce ==
  /\ download.pc = "returned" =>
       LET res == download.result
       IN /\ Len(res.successful) + Len(res.failed) = res.totalUrls
          /\ res.totalUrls = Len(download.urls)
          /\ res.downloadedCount = Len(res.successful)
          /\ \A u \in Urls :
               UrlCount(res.successful, u) + UrlCount(res.failed, u)
                 = Cardinality({ i \in 1..Len(download.urls) : download.urls[i] = u })
          /\ Len(download.downloads) = Len(download.urls)
          /\ \A i \in 1..Len(download.urls) :
               /\ download.downloads[i].url = download.urls[i]
               /\ Settled(download.downloads[i])
  /\ download.pc = "threw" => download.downloads = <<>>

\* C38 witness: downloadUrls returns after a download of the first batch
\* failed, one of the same batch succeeded and one of the second batch
\* succeeded
C38_Witness ==
  /\ download.pc = "returned"
  /\ Len(download.urls) = 3
  /\ download.downloads[1].state = "rejected"
  /\ download.downloads[2].state = "fulfilled"
  /\ download.downloads[3].state = "fulfilled"
  /\ download.downloads[3].batch = 1
  /\ Len(download.result.failed) = 1
  /\ Len(download.result.successful) = 2

\* the downloads that were started and have not settled
InFlight == { i \in 1..Len(download.downloads) : ~Settled(download.downloads[i]) }

\* C39: at most maxConcurrentDownloads downloads are in flight; the
\* downloads are started in input order, the i-th in batch
\* (i - 1) \div maxConcurrentDownloads counted from 0; and while a download
\* of a batch is started, every download of every earlier batch has settled.
C39_BatchesBoundConcurrency ==
  /\ Cardinality(InFlight) <= maxConcurrentDownloads
  /\ Len(download.downloads) <= Len(download.urls)
  /\ \A i \in 1..Len(download.downloads) :
       /\ download.downloads[i].url = download.urls[i]
       /\ download.downloads[i].batch = (i - 1) \div maxConcurrentDownloads
  /\ \A i, j \in 1..Len(download.downloads) :
       download.downloads[i].batch < download.downloads[j].batch =>
         Settled(download.downloads[i])

\* C39 witness: the two downloads of the first batch were in flight
\* together and have settled, and the download of the second batch is in
\* flight
C39_Witness ==
  /\ download.pc = "allSettled"
  /\ download.batchIndex = 1
  /\ Len(download.downloads) = 3
  /\ download.downloads[1].state = "rejected"
  /\ download.downloads[2].state = "fulfilled"
  /\ download.downloads[3].state = "writing"
  /\ InFlight = {3}

\* C40: when downloadUrls returns, two entries of successful for distinct
\* URLs name distinct files, and the file an entry names holds the content
\* downloaded from the URL of the entry.
C40_SuccessfulDownloadsKeepTheirFiles ==
  download.pc = "returned" =>
    LET successful == download.result.successful
    IN /\ \A i, j \in 1..Len(successful) :
            successful[i].url # successful[j].url =>
              successful[i].filePath # successful[j].filePath
       /\ \A i \in 1..Len(successful) :
            \E f \in download.files :
              f.path = successful[i].filePath /\ f.url = successful[i].url

\* C37: when ReadFileTool.execute returns, the session it started has been
\* completed, on the success path and on the read-error path, whatever
\* /testbench enable and /testbench disable did during the read.
C37_StartedSessionCompletedOnReturn ==
  (pc = "readFileReturned" /\ session # NoSession) => session.completed

\* C36: whichever strategy searches, a line is reported when it matches the
\* pattern with letter case ignored, also when it matches only then.
C36_CaseIgnoredByEveryStrategy ==
  call.fn = "searched" =>
    (call.reported <=> RegexTestIgnoreCase(call.pattern, call.line))

\* C35: when system grep closes with an exit code other than 0 and 1 and
\* the retained stderr is empty, the strategy has succeeded with the empty
\* match list, whatever was on stdout, and the selector returns without
\* starting the fallback.
C35_ErrorCodeWithoutStderrSucceeds ==
  /\ [][(pc = "grepRun" /\ grepChild'.state = "closed" /\ grepChild'.code \notin {0, 1}
          /\ Trim(Concat(stderrChunks)) = <<>>) =>
         /\ pc' = "pgsReturn"
         /\ outcome'["system grep"] = "succeeded"
         /\ pgsResult' = [state |-> "returned", matches |-> <<>>]
         /\ traversals' = traversals]_vars
  /\ [](( grepChild.state = "closed" /\ grepChild.code \notin {0, 1}
          /\ outcome["system grep"] = "succeeded") =>
         /\ pc = "pgsReturn"
         /\ started[Len(started)] = "system grep"
         /\ outcome["javascript fallback"] = "untried"
         /\ pgsResult = [state |-> "returned", matches |-> <<>>])

\* C35 witness: system grep wrote matches to stdout and only suppressed
\* text to stderr, exited with code 2, and the selector returns no match
C35_Witness ==
  /\ pc = "pgsReturn"
  /\ grepChild.state = "closed"
  /\ grepChild.code = 2
  /\ grepChild.stdout # <<>>
  /\ stderrText # <<>>
  /\ outcome["system grep"] = "succeeded"
  /\ pgsResult.matches = <<>>

\* the files the glob stream of the running fallback yields
StreamFiles == { f \in TreeFiles : GlobMatches(FallbackGlob(params.include), f) }

\* C34: in the fallback a file that cannot be read is skipped and the
\* traversal goes on: whatever files fail, during the loop and at its return
\* the matches are exactly the matching lines of the files read so far, each
\* once, and the fallback returns only after every file of the stream was
\* tried.
C34_ReadFailuresSwallowed ==
  /\ pc = "jsIter" =>
       /\ filesRead \subseteq StreamFiles \ filesLeft
       /\ Range(jsMatches) = DirectFallbackMatches(params, filesRead)
       /\ Len(jsMatches) = Cardinality(Range(jsMatches))
  /\ (pc = "pgsReturn" /\ strategyUsed = "javascript fallback") =>
       /\ filesLeft = {}
       /\ pgsResult.state = "returned"
       /\ pgsResult.matches = jsMatches
       /\ Range(pgsResult.matches) = DirectFallbackMatches(params, filesRead)
       /\ Len(pgsResult.matches) = Cardinality(Range(pgsResult.matches))

\* C34 witness: the fallback returned matches of a file it read although a
\* file with matching lines could not be read
C34_Witness ==
  /\ pc = "pgsReturn"
  /\ strategyUsed = "javascript fallback"
  /\ pgsResult.matches # <<>>
  /\ \E f \in StreamFiles \ filesRead : FileMatches(f, params.pattern) # <<>>

\* ------------------------------------------------------------------------
\* Properties of the analytics of one execute
\* ------------------------------------------------------------------------

\* the number of entries of the history that are the record of the session
HistoryEntriesOf(id) == Cardinality({ i \in 1..Len(searchHistory) : searchHistory[i] = id })

\* a step in which complete() is called on the held session for the first
\* time; the record of an active session is appended to the history
FirstCompleteStep ==
  /\ ~session.completed
  /\ session'.completed
  /\ session'.id = session.id
  /\ lastCall'.method = "complete"
  /\ searchHistory' = IF isActive(session)
                      THEN Append(searchHistory, session.id)
                      ELSE searchHistory

C25_PrefixDisambiguatesRoots ==
  \A i \in 1..Len(allMatches), j \in 1..Len(allMatches) :
    foundIn[i].dir # foundIn[j].dir => allMatches[i].filePath # allMatches[j].filePath

\* the entries 'L<lineNumber>: <text>' under 'File: <file>' in the blocks
EntriesIn(blocks, file, lineNumber, text) ==
  UNION { { <<b, i>> : i \in { k \in 1..Len(blocks[b].lines) :
                                /\ blocks[b].lines[k].lineNumber = lineNumber
                                /\ blocks[b].lines[k].text = text } } :
          b \in { c \in 1..Len(blocks) : blocks[c].file = file } }

\* the matches that are rendered as 'L<lineNumber>: <text>' under 'File: <file>'
MatchesFor(matches, file, lineNumber, text) ==
  { i \in 1..Len(matches) :
      /\ matches[i].filePath = file
      /\ matches[i].lineNumber = lineNumber
      /\ Trim(matches[i].line) = text }

RECURSIVE TotalLines(_)
\* the number of 'L<line>:' entries of all blocks
TotalLines(blocks) ==
  IF blocks = <<>> THEN 0 ELSE Len(Head(blocks).lines) + TotalLines(Tail(blocks))

\* C26: a rendered result has the number of matches that the strategies
\* returned over all roots as its count, and its blocks hold one entry per
\* such match: as many entries as matches, and each match's entry as often
\* as there are matches with that file, line number and trimmed text.
C26_NothingLostOrDuplicated ==
  (pc = "done" /\ result.kind \in {"found", "no_matches"}) =>
    /\ result.count = Len(foundIn)
    /\ Len(allMatches) = Len(foundIn)
    /\ TotalLines(result.blocks) = Len(foundIn)
    /\ \A m \in 1..Len(allMatches) :
         Cardinality(EntriesIn(result.blocks, allMatches[m].filePath,
                               allMatches[m].lineNumber, Trim(allMatches[m].line)))
           = Cardinality(MatchesFor(allMatches, allMatches[m].filePath,
                                    allMatches[m].lineNumber, Trim(allMatches[m].line)))

\* C26 witness: two roots were searched, both gave matches, one file has
\* several matches, and the result was rendered with more than one block
C26_Witness ==
  /\ pc = "done"
  /\ result.kind = "found"
  /\ result.count >= 3
  /\ Len(result.blocks) >= 2
  /\ \E b \in 1..Len(result.blocks) : Len(result.blocks[b].lines) >= 2
  /\ \E i \in 1..Len(foundIn), j \in 1..Len(foundIn) : foundIn[i].dir # foundIn[j].dir

\* ------------------------------------------------------------------------
\* Properties of the record of one execute
\* ------------------------------------------------------------------------

\* how many ranking factors of the record have the given name
FactorCount(s, name) ==
  Cardinality({ i \in 1..Len(s.analytics.rankingFactors) :
                  s.analytics.rankingFactors[i].factor = name })

\* C27: the record finalized by an execute with analytics enabled in which
\* the selector returned for at least one root has one 'Pattern Complexity',
\* one 'Search Scope' and one 'Result Density' factor, and one 'File Filter'
\* factor exactly when an include filter was given, however many roots were
\* searched.
C27_RankingFactorsOncePerSearch ==
  (pc = "done" /\ isActive(session) /\ rootIdx >= 2) =>
    /\ FactorCount(session, "Pattern Complexity") = 1
    /\ FactorCount(session, "Search Scope") = 1
    /\ FactorCount(session, "Result Density") = 1
    /\ FactorCount(session, "File Filter") = IF params.include # NoValue THEN 1 ELSE 0

\* C28: during one execute the files-scanned count of the session is set
\* once: after the first root was searched (which is when it is set) no
\* step up to and including the finalization changes it.
C28_FilesScannedSetOnce ==
  [][(session'.id = session.id /\ isActive(session) /\ rootIdx >= 2) =>
       session'.analytics.filesScanned = session.analytics.filesScanned]_vars

\* C29: in every state resultsFound of a session's record is the length of
\* its matchDetails, and when execute has returned a rendered result with
\* analytics enabled both are the match count of the result.
C29_OneMatchAnalyticsPerMatch ==
  /\ isActive(session) =>
       session.analytics.resultsFound = Len(session.analytics.matchDetails)
  /\ (pc = "done" /\ isActive(session) /\ result.kind \in {"found", "no_matches"}) =>
       /\ session.completed
       /\ session.analytics.resultsFound = result.count
       /\ Len(session.analytics.matchDetails) = result.count
       /\ result.count = Len(allMatches)

\* C29 witness: an execute with analytics enabled over two roots returned a
\* result with several matches, some from the second root, and its finalized
\* record has as many MatchAnalytics
C29_Witness ==
  /\ pc = "done"
  /\ isActive(session)
  /\ session.completed
  /\ Len(searchDirectories) = 2
  /\ result.kind = "found"
  /\ result.count >= 3
  /\ Len(session.analytics.matchDetails) = result.count
  /\ \E i \in 1..Len(allMatches) :
       allMatches[i].filePath[1] = Basename(searchDirectories[2])

\* C30: matchDetails of a session's record only grows at its end: every step
\* on the session, the finalization with its logging included, leaves the
\* entries there were in place and in order.
C30_MatchDetailsAppendOnly ==
  [][(session'.id = session.id /\ isActive(session) /\ isActive(session')) =>
       IsPrefix(session.analytics.matchDetails, session'.analytics.matchDetails)]_vars

\* ------------------------------------------------------------------------
\* Properties of searches running at the same time
\* ------------------------------------------------------------------------

\* C31: under every interleaving of concurrent searches, the record a search
\* has finalized is the record the same search produces when it runs alone
\* (its own matches, files-scanned count and ranking factors and nothing
\* else), and every finalized session with a record is in the shared history
\* exactly once, every other session not at all.
C31_ConcurrentSearchesIsolated ==
  /\ \A t \in Tasks :
       executes[t].pc = "done" =>
         /\ sessions[executes[t].session].completed
         /\ sessions[executes[t].session].analytics = executes[t].alone.analytics
  /\ \A id \in 1..Len(sessions) :
       HistoryEntriesOf(id) =
         IF sessions[id].completed /\ isActive(sessions[id]) THEN 1 ELSE 0

\* C31 witness: the call that started second finalized its record, with
\* matches in it, while the call that started first stands between two
\* addMatch calls with a match already in its own record
C31_Witness ==
  \E t \in Tasks, u \in Tasks :
    /\ executes[t].pc = "done"
    /\ executes[t].session = 2
    /\ isActive(sessions[2])
    /\ Len(sessions[2].analytics.matchDetails) >= 1
    /\ HistoryEntriesOf(2) = 1
    /\ executes[u].pc = "addMatch"
    /\ executes[u].session = 1
    /\ isActive(sessions[1])
    /\ Len(sessions[1].analytics.matchDetails) >= 1
    /\ executes[u].pending # <<>>

\* ------------------------------------------------------------------------
\* Further properties of the ranking heuristics
\* ------------------------------------------------------------------------

\* the pattern occurs, case ignored, in the trimmed line at an index below 10
OccursInFirstTen(match, pattern) ==
  \E i \in Occurrences(ToLowerCase(Trim(match.line)), ToLowerCase(pattern)) : i < 10

\* the score when the position increment is granted exactly to the matches
\* with OccursInFirstTen
ScoreWithPositionRule(match, pattern) ==
  LET lineLength == Len(Trim(match.line))
  IN Min(10,
       5
       + (IF StrIncludes(ToLowerCase(match.line), ToLowerCase(pattern)) THEN 2 ELSE 0)
       + (IF lineLength < 100 THEN 1 ELSE 0)
       + (IF lineLength < 50 THEN 1 ELSE 0)
       + (IF OccursInFirstTen(match, pattern) THEN 1 ELSE 0)
       + (IF ToLowerCase(Extname(match.filePath)) \in FavoredExtensions THEN 1 ELSE 0))

\* C32: calculateRelevanceScore grants the +0.1 position increment if and
\* only if the pattern occurs, case ignored, in the trimmed line at one of
\* its first 10 positions; a line without the pattern gets no such increment.
C32_PositionIncrementOnlyForEarlyMatch ==
  "calculateRelevanceScore" \in heuristic.called =>
    heuristic.score = ScoreWithPositionRule(heuristic.match, heuristic.pattern)

====
